---- MODULE Spec2Model ----
(***************************************************************************)
(* A model of the decision logic of Project-Nexus (src/app.py): the aura   *)
(* engine, the predictive engine and the sustainability engine, together   *)
(* with the session fields they are fed from.                              *)
(*                                                                         *)
(* Strings are TLA+ strings; str.lower() and the substring test `in` are   *)
(* computed character by character.  Python floats are IEEE-754 doubles    *)
(* and are modelled bit-exactly (see the section on floats).               *)
(***************************************************************************)
EXTENDS Integers, Sequences, FiniteSets, TLC

VARIABLES
    stress_level,     \* st.session_state.stress_level
    energy_level,     \* st.session_state.energy_level
    weather,          \* st.session_state.weather
    aura_state,       \* st.session_state.aura_state
    cart,             \* st.session_state.cart
    calendar_events,  \* st.session_state.calendar_events
    purchase_history, \* st.session_state.purchase_history
    health_goals,     \* st.session_state.health_goals
    fitness_data,     \* st.session_state.fitness_data
    hash_seed,        \* the interpreter's string-hash seed, fixed at start-up
    now,              \* the month and hour of the current run of the prediction pages
    request,          \* the operation and argument of a direct call of an engine
    wishlist,         \* st.session_state.wishlist
    users,            \* the rows of the table users of nexus_sparkathon.db, by id
    last              \* the most recent engine call: operation, argument, result

vars == <<stress_level, energy_level, weather, aura_state, cart,
          calendar_events, purchase_history, health_goals, fitness_data,
          hash_seed, now, request, wishlist, users, last>>

(***************************************************************************)
(* Strings                                                                 *)
(***************************************************************************)
UpperCase == "ABCDEFGHIJKLMNOPQRSTUVWXYZ"
LowerCase == "abcdefghijklmnopqrstuvwxyz"

\* The i-th character of s, as a one-character string.
CharAt(s, i) == SubSeq(s, i, i)

\* The lower-case letter of each upper-case letter.
LowerMap ==
    [c \in {CharAt(UpperCase, i) : i \in 1..26} |->
        CharAt(LowerCase, CHOOSE i \in 1..26 : CharAt(UpperCase, i) = c)]

\* str.lower() on one (ASCII) character.
LowerChar(c) == IF c \in DOMAIN LowerMap THEN LowerMap[c] ELSE c

RECURSIVE LowerFrom(_, _)
LowerFrom(s, i) ==
    IF i > Len(s) THEN "" ELSE LowerChar(CharAt(s, i)) \o LowerFrom(s, i + 1)

\* str.lower()
Lower(s) == LowerFrom(s, 1)

\* Python's `sub in s` for strings.
Contains(sub, s) ==
    \E i \in 1..(Len(s) - Len(sub) + 1) : SubSeq(s, i, i + Len(sub) - 1) = sub

\* dict.get(key, default)
Get(d, key, default) == IF key \in DOMAIN d THEN d[key] ELSE default

\* A call that has not happened (yet).
NoCall == [op |-> "none"]

\* No direct call is asked for: the pages make the calls.
NoRequest == [op |-> "none"]

(***************************************************************************)
(* The table users                                                         *)
(***************************************************************************)
\* hash_password without bcrypt: the SHA-256 digest of the password, a
\* string that differs for passwords that differ.  (With bcrypt the hash
\* also holds a salt, which check_password takes from the hash itself.)
hash_password(password) == "sha256(" \o password \o ")"

\* check_password
check_password(password, hashed) == hash_password(password) = hashed

\* The row an INSERT of lines 226-228 or 291-293 adds to the rows: the next
\* id, the given columns, the defaults of lines 154-166 for the others;
\* last_login is <<>> for NULL and else the month and hour of the login.
NewRow(rows, username, password, email, role) ==
    [id |-> Len(rows) + 1, username |-> username, password |-> password,
     email |-> email, role |-> role, last_login |-> <<>>,
     is_active |-> 1, failed_attempts |-> 0]

\* The place of the row of the username in the rows, 0 when it has none.
RowOf(rows, username) ==
    IF \E i \in 1..Len(rows) : rows[i].username = username
    THEN CHOOSE i \in 1..Len(rows) : rows[i].username = username
    ELSE 0

\* init_comprehensive_db, for the table users: the admin row is inserted
\* unless a row of that username exists (lines 222-228).
init_comprehensive_db(rows) ==
    IF RowOf(rows, "admin") = 0
    THEN Append(rows, NewRow(rows, "admin", hash_password("admin123"),
                             "admin@walmart.com", "admin"))
    ELSE rows

\* The table after the first load of the module (line 264).
FreshStore == init_comprehensive_db(<<>>)

\* The rows after UPDATE users SET ... WHERE username = ?: every row of the
\* username gets the two columns set.
UpdateLogin(rows, username, last_login, failed_attempts) ==
    [k \in 1..Len(rows) |->
        IF rows[k].username = username
        THEN [rows[k] EXCEPT !.last_login = last_login,
                             !.failed_attempts = failed_attempts]
        ELSE rows[k]]

\* The row SELECT * FROM users WHERE username = ? AND is_active = 1 fetches,
\* as a list of one row, or the empty list (None).
ActiveUser(rows, username) ==
    LET i == RowOf(rows, username)
    IN  IF i # 0 /\ rows[i].is_active = 1 THEN <<rows[i]>> ELSE <<>>

\* authenticate_user refusing the user after two failed attempts.
Mut_authenticate_user_Lockout(rows, username, password, clock) ==
    LET user == ActiveUser(rows, username)
    IN  IF user # <<>> /\ user[1].failed_attempts >= 2
        THEN [rows |-> rows, ret |-> <<>>]
        ELSE IF user # <<>>
        THEN IF check_password(password, user[1].password)
             THEN [rows |-> UpdateLogin(rows, username, <<clock.month, clock.hour>>, 0),
                   ret |-> user]
             ELSE [rows |-> UpdateLogin(rows, username, user[1].last_login,
                                        user[1].failed_attempts + 1),
                   ret |-> <<>>]
        ELSE [rows |-> rows, ret |-> <<>>]

\* authenticate_user: the table after the call and what the call returns,
\* the fetched row in a list or the empty list for None.
authenticate_user(rows, username, password, clock) ==
    LET user == ActiveUser(rows, username)
    IN  IF user # <<>>
        THEN IF check_password(password, user[1].password)
             THEN [rows |-> UpdateLogin(rows, username, <<clock.month, clock.hour>>, 0),
                   ret |-> user]
             ELSE [rows |-> UpdateLogin(rows, username, user[1].last_login,
                                        user[1].failed_attempts + 1),
                   ret |-> <<>>]
        ELSE [rows |-> rows, ret |-> <<>>]

\* create_user replacing the row of a username that exists.
Mut_create_user_Replace(rows, username, password, email, role) ==
    IF RowOf(rows, username) # 0
    THEN [rows |-> [rows EXCEPT ![RowOf(rows, username)] =
                        [NewRow(rows, username, hash_password(password), email, role)
                            EXCEPT !.id = RowOf(rows, username)]],
          ret |-> TRUE]
    ELSE [rows |-> Append(rows, NewRow(rows, username, hash_password(password),
                                       email, role)),
          ret |-> TRUE]

\* create_user: the INSERT fails with IntegrityError when a row has the
\* username (UNIQUE, line 156), and the table is as before.
create_user(rows, username, password, email, role) ==
    IF RowOf(rows, username) # 0
    THEN [rows |-> rows, ret |-> FALSE]
    ELSE [rows |-> Append(rows, NewRow(rows, username, hash_password(password),
                                       email, role)),
          ret |-> TRUE]

\* A clock reading: midnight in January.
StartOfYear == [month |-> 1, hour |-> 0]

(***************************************************************************)
(* AuraEngine                                                              *)
(***************************************************************************)
StressLevels == 1..10
EnergyLevels == 1..10
Weathers     == {"Sunny", "Rainy", "Cloudy", "Snowy"}
Hours        == 0..23

DefaultStress == 5
DefaultEnergy == 7
DefaultWeather == "Sunny"

\* TimeAura returning the second accent colour of Restful's bundle.
Mut_TimeAura_SecondAccent(hour) ==
    IF hour < 6 \/ hour > 22 THEN <<"Restful", "#4f46e5">>
    ELSE IF 6 <= hour /\ hour < 12 THEN <<"Energetic", "#f59e0b">>
    ELSE IF 12 <= hour /\ hour < 18 THEN <<"Productive", "#0071ce">>
    ELSE <<"Relaxed", "#10b981">>

\* The time-of-day branch of calculate_aura.
TimeAura(hour) ==
    IF hour < 6 \/ hour > 22 THEN <<"Restful", "#6366f1">>
    ELSE IF 6 <= hour /\ hour < 12 THEN <<"Energetic", "#f59e0b">>
    ELSE IF 12 <= hour /\ hour < 18 THEN <<"Productive", "#0071ce">>
    ELSE <<"Relaxed", "#10b981">>

\* WeatherAura with `and` written `or` in the Vibrant rule.
Mut_WeatherAura_Or(stress, energy, wthr, hour) ==
    IF wthr = "Rainy" /\ stress > 5 THEN <<"Cozy", "#8b5cf6">>
    ELSE IF wthr = "Sunny" \/ energy > 6 THEN <<"Vibrant", "#f59e0b">>
    ELSE TimeAura(hour)

\* The weather branch of calculate_aura, falling through to the time branch.
WeatherAura(stress, energy, wthr, hour) ==
    IF wthr = "Rainy" /\ stress > 5 THEN <<"Cozy", "#8b5cf6">>
    ELSE IF wthr = "Sunny" /\ energy > 6 THEN <<"Vibrant", "#f59e0b">>
    ELSE TimeAura(hour)

\* EnergyAura with the weather rules tried before the energy rules.
Mut_EnergyAura_WeatherFirst(stress, energy, wthr, hour) ==
    IF wthr = "Rainy" /\ stress > 5 THEN <<"Cozy", "#8b5cf6">>
    ELSE IF wthr = "Sunny" /\ energy > 6 THEN <<"Vibrant", "#f59e0b">>
    ELSE IF energy > 8 THEN <<"Energetic", "#f59e0b">>
    ELSE IF energy < 3 THEN <<"Low Energy", "#6b7280">>
    ELSE TimeAura(hour)

\* The energy branch of calculate_aura, falling through to the weather branch.
EnergyAura(stress, energy, wthr, hour) ==
    IF energy > 8 THEN <<"Energetic", "#f59e0b">>
    ELSE IF energy < 3 THEN <<"Low Energy", "#6b7280">>
    ELSE WeatherAura(stress, energy, wthr, hour)

\* calculate_aura with the Cozy rule tried before the stress rules.
Mut_calculate_aura_CozyFirst(user_data, hour) ==
    LET stress == Get(user_data, "stress_level", DefaultStress)
        energy == Get(user_data, "energy_level", DefaultEnergy)
        wthr   == Get(user_data, "weather", DefaultWeather)
    IN  IF wthr = "Rainy" /\ stress > 5 THEN <<"Cozy", "#8b5cf6">>
        ELSE IF stress > 7 THEN <<"Stressed", "#ef4444">>
        ELSE IF stress < 3 THEN <<"Calm", "#10b981">>
        ELSE EnergyAura(stress, energy, wthr, hour)

\* calculate_aura taking a missing energy level for 5.
Mut_calculate_aura_EnergyDefault(user_data, hour) ==
    LET stress == Get(user_data, "stress_level", DefaultStress)
        energy == Get(user_data, "energy_level", DefaultStress)
        wthr   == Get(user_data, "weather", DefaultWeather)
    IN  IF stress > 7 THEN <<"Stressed", "#ef4444">>
        ELSE IF stress < 3 THEN <<"Calm", "#10b981">>
        ELSE EnergyAura(stress, energy, wthr, hour)

\* AuraEngine.calculate_aura; hour is what datetime.now().hour returns.
calculate_aura(user_data, hour) ==
    LET stress == Get(user_data, "stress_level", DefaultStress)
        energy == Get(user_data, "energy_level", DefaultEnergy)
        wthr   == Get(user_data, "weather", DefaultWeather)
    IN  IF stress > 7 THEN <<"Stressed", "#ef4444">>
        ELSE IF stress < 3 THEN <<"Calm", "#10b981">>
        ELSE EnergyAura(stress, energy, wthr, hour)

\* The table of get_aura_recommendations, in the order it is written.
recommendations ==
    [Stressed |->
        [categories |-> <<"Wellness", "Relaxation", "Comfort">>,
         products |-> <<"Aromatherapy oils", "Herbal tea", "Stress ball", "Meditation app">>,
         ui_theme |-> "calm", colors |-> <<"#ef4444", "#f97316">>],
     Energetic |->
        [categories |-> <<"Fitness", "Sports", "Adventure">>,
         products |-> <<"Protein powder", "Workout gear", "Energy drinks", "Sports equipment">>,
         ui_theme |-> "vibrant", colors |-> <<"#f59e0b", "#eab308">>],
     Calm |->
        [categories |-> <<"Books", "Art", "Music">>,
         products |-> <<"Books", "Art supplies", "Classical music", "Puzzles">>,
         ui_theme |-> "serene", colors |-> <<"#10b981", "#059669">>],
     Eco |->
        [categories |-> <<"Sustainable", "Organic", "Green">>,
         products |-> <<"Organic foods", "Eco-friendly products", "Reusable items", "Solar products">>,
         ui_theme |-> "green", colors |-> <<"#22c55e", "#16a34a">>],
     Cozy |->
        [categories |-> <<"Comfort", "Indoor", "Warmth">>,
         products |-> <<"Blankets", "Hot beverages", "Candles", "Indoor plants">>,
         ui_theme |-> "cozy", colors |-> <<"#8b5cf6", "#7c3aed">>],
     Vibrant |->
        [categories |-> <<"Outdoor", "Active", "Social">>,
         products |-> <<"Outdoor gear", "Party supplies", "Bright clothing", "Social games">>,
         ui_theme |-> "vibrant", colors |-> <<"#f59e0b", "#eab308">>],
     Restful |->
        [categories |-> <<"Sleep", "Relaxation", "Night">>,
         products |-> <<"Sleep masks", "Pillows", "Night tea", "Meditation apps">>,
         ui_theme |-> "night", colors |-> <<"#6366f1", "#4f46e5">>],
     Productive |->
        [categories |-> <<"Work", "Efficiency", "Focus">>,
         products |-> <<"Office supplies", "Productivity tools", "Healthy snacks", "Organizers">>,
         ui_theme |-> "professional", colors |-> <<"#0071ce", "#0284c7">>],
     Relaxed |->
        [categories |-> <<"Leisure", "Entertainment", "Comfort">>,
         products |-> <<"Entertainment", "Comfort food", "Leisure activities", "Relaxation tools">>,
         ui_theme |-> "leisure", colors |-> <<"#10b981", "#059669">>]]
    @@ ("Low Energy" :>
        [categories |-> <<"Energy Boost", "Comfort", "Rest">>,
         products |-> <<"Energy bars", "Coffee", "Comfortable seating", "Sleep aids">>,
         ui_theme |-> "restful", colors |-> <<"#6b7280", "#4b5563">>])

\* get_aura_recommendations falling back to an empty bundle.
Mut_get_aura_recommendations_Empty(label) ==
    Get(recommendations, label,
        [categories |-> <<>>, products |-> <<>>, ui_theme |-> "", colors |-> <<>>])

\* AuraEngine.get_aura_recommendations
get_aura_recommendations(label) ==
    Get(recommendations, label, recommendations["Calm"])

\* The labels some caller may pass: the ten of the table, the session's initial
\* aura_state, and strings that are no key of the table.
LabelInputs == DOMAIN recommendations \cup {"Balanced", "", "calm", "Low energy"}

\* The record the callers build from the session (lines 1249-1253).
AuraContext ==
    [stress_level |-> stress_level, energy_level |-> energy_level, weather |-> weather]

(***************************************************************************)
(* The session as initialize_session_state leaves it (lines 76-133).       *)
(***************************************************************************)
DefaultCalendar == <<"Friend's Birthday", "Weekend BBQ", "Gym Session">>
DefaultHealthGoals == <<"Weight Management", "Heart Health">>
DefaultFitness == [steps |-> 8450, calories |-> 2100, water |-> 6]

\* The session fields the aura pages neither read nor write.
ShoppingDefaults ==
    /\ cart = <<>>
    /\ calendar_events = DefaultCalendar
    /\ purchase_history = <<>>
    /\ health_goals = DefaultHealthGoals
    /\ fitness_data = DefaultFitness
    /\ hash_seed = 0
    /\ now = StartOfYear
    /\ request = NoRequest
    /\ wishlist = <<>>
    /\ users = FreshStore

(***************************************************************************)
(* SpecAura: the aura pages.  The sliders and the weather box (lines       *)
(* 1506-1512) have put any of their values in the session; the clock is    *)
(* read at each call.                                                      *)
(***************************************************************************)
InitAura ==
    /\ stress_level \in StressLevels
    /\ energy_level \in EnergyLevels
    /\ weather \in Weathers
    /\ aura_state = "Balanced"
    /\ ShoppingDefaults
    /\ last = NoCall

\* "Refresh Aura" (lines 1248-1254) and the aura page (lines 1532-1538):
\* the aura of the session's context is computed and stored.
RefreshAura ==
    \E hour \in Hours :
        LET ret == calculate_aura(AuraContext, hour)
        IN  /\ aura_state' = ret[1]
            /\ last' = [op |-> "calculate_aura", arg |-> AuraContext,
                        hour |-> hour, ret |-> ret]
            /\ UNCHANGED <<stress_level, energy_level, weather, cart,
                           calendar_events, purchase_history, health_goals,
                           fitness_data, hash_seed, now, request, wishlist, users>>

\* get_aura_recommendations on the stored aura (line 1559) or on any label.
ShowRecommendations ==
    \E label \in LabelInputs \cup {aura_state} :
        /\ last' = [op |-> "get_aura_recommendations", arg |-> label,
                    ret |-> get_aura_recommendations(label)]
        /\ UNCHANGED <<stress_level, energy_level, weather, aura_state, cart,
                       calendar_events, purchase_history, health_goals,
                       fitness_data, hash_seed, now, request, wishlist, users>>

NextAura == RefreshAura \/ ShowRecommendations

SpecAura == InitAura /\ [][NextAura]_vars

\* The last call was calculate_aura.
AuraCalled == last.op = "calculate_aura"

\* C1: whenever calculate_aura was called on a context with stress_level > 7,
\* it returned the label Stressed (so never Cozy), whatever the energy level,
\* the weather and the hour were.
C1_HighStressIsStressed ==
    (AuraCalled /\ last.arg.stress_level > 7)
        => (last.ret[1] = "Stressed" /\ last.ret[1] # "Cozy")

\* A Rainy context with stress above 7 and stress above 5 has been classified.
C1_Witness ==
    /\ AuraCalled
    /\ last.arg.stress_level > 7
    /\ last.arg.weather = "Rainy"
    /\ last.arg.energy_level = 1
    /\ last.ret[1] = "Stressed"

\* C2: for stress_level <= 7 the rules 2 to 6 apply in order, first match
\* winning (Calm, Energetic, Low Energy, Cozy, Vibrant), and when one of them
\* matches, the label is the same at every hour.
C2_RuleOrder ==
    (AuraCalled /\ last.arg.stress_level <= 7) =>
        LET s == last.arg.stress_level
            e == last.arg.energy_level
            w == last.arg.weather
            r2 == s < 3
            r3 == e > 8
            r4 == e < 3
            r5 == w = "Rainy" /\ s > 5
            r6 == w = "Sunny" /\ e > 6
            label == last.ret[1]
        IN  /\ r2 => label = "Calm"
            /\ (~r2 /\ r3) => label = "Energetic"
            /\ (~r2 /\ ~r3 /\ r4) => label = "Low Energy"
            /\ (~r2 /\ ~r3 /\ ~r4 /\ r5) => label = "Cozy"
            /\ (~r2 /\ ~r3 /\ ~r4 /\ ~r5 /\ r6) => label = "Vibrant"
            /\ (r2 \/ r3 \/ r4 \/ r5 \/ r6) =>
                   \A h \in Hours : calculate_aura(last.arg, h) = last.ret

\* A context matching both the energy rule and the Cozy rule got Energetic.
C2_Witness ==
    /\ AuraCalled
    /\ last.arg.stress_level = 6
    /\ last.arg.energy_level = 9
    /\ last.arg.weather = "Rainy"
    /\ last.ret[1] = "Energetic"

\* No rule on stress, energy or weather matches the context of the last call.
NoRuleMatches ==
    LET s == last.arg.stress_level
        e == last.arg.energy_level
        w == last.arg.weather
    IN  /\ 3 <= s /\ s <= 7
        /\ 3 <= e /\ e <= 8
        /\ ~(w = "Rainy" /\ s > 5)
        /\ ~(w = "Sunny" /\ e > 6)

\* C3 (as claimed): when none of rules 1 to 6 matches, hours in [0,6) or
\* [22,24) give Restful, [6,12) Energetic, [12,18) Productive, [18,22) Relaxed.
C3_TimeBranchAsClaimed ==
    (AuraCalled /\ NoRuleMatches) =>
        LET h == last.hour
            label == last.ret[1]
        IN  /\ (h < 6 \/ (22 <= h /\ h < 24)) => label = "Restful"
            /\ (6 <= h /\ h < 12) => label = "Energetic"
            /\ (12 <= h /\ h < 18) => label = "Productive"
            /\ (18 <= h /\ h < 22) => label = "Relaxed"

\* C4: a Cloudy context with stress in 3..7 and energy in 3..8, evaluated at
\* hour 14, is classified Productive.
C4_FallthroughProductive ==
    (/\ AuraCalled
     /\ last.arg.weather = "Cloudy"
     /\ last.arg.stress_level \in 3..7
     /\ last.arg.energy_level \in 3..8
     /\ last.hour = 14) => last.ret[1] = "Productive"

\* The example of the claim: stress 5, energy 7, Cloudy, hour 14.
C4_Witness ==
    /\ AuraCalled
    /\ last.arg = [stress_level |-> 5, energy_level |-> 7, weather |-> "Cloudy"]
    /\ last.hour = 14
    /\ last.ret[1] = "Productive"

TenLabels ==
    {"Stressed", "Energetic", "Calm", "Cozy", "Vibrant", "Low Energy",
     "Restful", "Productive", "Relaxed", "Eco"}

\* C5: get_aura_recommendations returns, for each of the ten labels, that
\* label's bundle with a non-empty categories list and a non-empty products
\* list, and for any other label exactly the Calm bundle.
C5_RecommendationsTotal ==
    (last.op = "get_aura_recommendations") =>
        /\ Len(last.ret.categories) > 0
        /\ Len(last.ret.products) > 0
        /\ last.arg \in TenLabels =>
               (last.arg \in DOMAIN recommendations
                    /\ last.ret = recommendations[last.arg])
        /\ last.arg \notin TenLabels =>
               /\ last.ret = recommendations["Calm"]
               /\ last.ret.categories = <<"Books", "Art", "Music">>
               /\ last.ret.products = <<"Books", "Art supplies", "Classical music", "Puzzles">>

\* The session's initial aura_state, "Balanced", was looked up and got the
\* Calm bundle.
C5_Witness ==
    /\ last.op = "get_aura_recommendations"
    /\ last.arg = "Balanced"
    /\ aura_state = "Balanced"
    /\ last.ret.ui_theme = "serene"

(***************************************************************************)
(* Floats.  A Python float is an IEEE-754 double.  Every double the        *)
(* sustainability engine computes is a multiple of 2^-54 (the unit in the  *)
(* last place of 0.3, the smallest cost) below 2^7, so it is written       *)
(* <<a, b, c>>, standing for (a * 2^48 + b * 2^24 + c) * 2^-54 with        *)
(* 0 <= b, c < 2^24.  Sums and differences are computed exactly and then   *)
(* rounded to 53 significant bits, ties to even, as the hardware does.     *)
(***************************************************************************)
Limb == 2^24

\* Carries propagated from the low limbs upwards.
FxNorm(x) ==
    LET b1 == x[2] + (x[3] \div Limb)
    IN  <<x[1] + (b1 \div Limb), b1 % Limb, x[3] % Limb>>

\* The exact sum.
FxAdd(x, y) == FxNorm(<<x[1] + y[1], x[2] + y[2], x[3] + y[3]>>)

\* x < y
FxLess(x, y) ==
    \/ x[1] < y[1]
    \/ x[1] = y[1] /\ x[2] < y[2]
    \/ x[1] = y[1] /\ x[2] = y[2] /\ x[3] < y[3]

\* The exact difference x - y, for y <= x.
FxSub(x, y) ==
    LET c  == x[3] - y[3]
        bc == IF c < 0 THEN 1 ELSE 0
        b  == x[2] - y[2] - bc
        bb == IF b < 0 THEN 1 ELSE 0
    IN  <<x[1] - y[1] - bb, b + bb * Limb, c + bc * Limb>>

RECURSIVE BitLen(_)
\* The number of binary digits of n.
BitLen(n) == IF n = 0 THEN 0 ELSE 1 + BitLen(n \div 2)

\* The number of binary digits of x, counted in units.
FxBits(x) ==
    IF x[1] > 0 THEN 48 + BitLen(x[1])
    ELSE IF x[2] > 0 THEN 24 + BitLen(x[2])
    ELSE BitLen(x[3])

\* Round to nearest, ties to even, to 53 significant bits.
Round53(x) ==
    LET drop == FxBits(x) - 53
    IN  IF drop <= 0 THEN x
        ELSE LET q    == 2^drop
                 rem  == x[3] % q
                 low  == x[3] - rem
                 odd  == (x[3] \div q) % 2 = 1
                 up   == rem > q \div 2 \/ (rem = q \div 2 /\ odd)
             IN  FxNorm(<<x[1], x[2], IF up THEN low + q ELSE low>>)

\* float + float
FAdd(x, y) == Round53(FxAdd(x, y))

\* float - float, for y <= x
FSub(x, y) == Round53(FxSub(x, y))

\* The double of a small natural number.
FromInt(n) == <<64 * n, 0, 0>>

\* The literals of calculate_carbon_footprint; 0.3 is 0x3FD3333333333333.
Cost_0_5 == <<32, 0, 0>>
Cost_3_0 == FromInt(3)
Cost_2_0 == FromInt(2)
Cost_4_0 == FromInt(4)
Cost_1_5 == <<96, 0, 0>>
Cost_0_3 == <<19, 3355443, 3355443>>
Cost_2_5 == <<160, 0, 0>>
Cost_1_0 == FromInt(1)

(***************************************************************************)
(* SustainabilityEngine                                                    *)
(***************************************************************************)
\* ItemCost with the keywords tried from the last to the first.
Mut_ItemCost_Reversed(item) ==
    LET low == Lower(item)
    IN  IF Contains("plastic", low) THEN Cost_2_5
        ELSE IF Contains("local", low) THEN Cost_0_3
        ELSE IF Contains("dairy", low) THEN Cost_1_5
        ELSE IF Contains("meat", low) THEN Cost_4_0
        ELSE IF Contains("clothing", low) THEN Cost_2_0
        ELSE IF Contains("electronics", low) THEN Cost_3_0
        ELSE IF Contains("organic", low) THEN Cost_0_5
        ELSE Cost_1_0

\* What one pass of the loop of calculate_carbon_footprint adds for item.
ItemCost(item) ==
    LET low == Lower(item)
    IN  IF Contains("organic", low) THEN Cost_0_5
        ELSE IF Contains("electronics", low) THEN Cost_3_0
        ELSE IF Contains("clothing", low) THEN Cost_2_0
        ELSE IF Contains("meat", low) THEN Cost_4_0
        ELSE IF Contains("dairy", low) THEN Cost_1_5
        ELSE IF Contains("local", low) THEN Cost_0_3
        ELSE IF Contains("plastic", low) THEN Cost_2_5
        ELSE Cost_1_0

RECURSIVE FootprintLoop(_, _, _)
\* The loop of calculate_carbon_footprint from item i on, total so far given.
\* (The sum is a number before the next pass starts: the test on it makes
\* the evaluator compute it there, as Python does, not at the end of the loop.)
FootprintLoop(cart_items, i, total_footprint) ==
    IF i > Len(cart_items) THEN total_footprint
    ELSE LET total == FAdd(total_footprint, ItemCost(cart_items[i]))
         IN  IF total[1] >= 0
             THEN FootprintLoop(cart_items, i + 1, total)
             ELSE total

\* SustainabilityEngine.calculate_carbon_footprint
calculate_carbon_footprint(cart_items) ==
    FootprintLoop(cart_items, 1, FromInt(0))

\* EcoGrade with the band edges given to the better grade.
Mut_EcoGrade_Inclusive(carbon_footprint) ==
    IF ~FxLess(FromInt(5), carbon_footprint) THEN "A+"
    ELSE IF ~FxLess(FromInt(10), carbon_footprint) THEN "A"
    ELSE IF ~FxLess(FromInt(20), carbon_footprint) THEN "B+"
    ELSE IF ~FxLess(FromInt(30), carbon_footprint) THEN "B"
    ELSE "C"

\* The grade bands of generate_sustainability_report.
EcoGrade(carbon_footprint) ==
    IF FxLess(carbon_footprint, FromInt(5)) THEN "A+"
    ELSE IF FxLess(carbon_footprint, FromInt(10)) THEN "A"
    ELSE IF FxLess(carbon_footprint, FromInt(20)) THEN "B+"
    ELSE IF FxLess(carbon_footprint, FromInt(30)) THEN "B"
    ELSE "C"

\* EcoScore with the footprint not doubled.
Mut_EcoScore_NotDoubled(carbon_footprint) ==
    IF FxLess(carbon_footprint, FromInt(100))
    THEN FSub(FromInt(100), carbon_footprint)
    ELSE FromInt(0)

\* max(0, 100 - carbon_footprint * 2): the product is exact, the difference
\* is rounded, and max keeps 0 unless the difference is greater.
EcoScore(carbon_footprint) ==
    LET twice == FxAdd(carbon_footprint, carbon_footprint)
    IN  IF FxLess(twice, FromInt(100))
        THEN FSub(FromInt(100), twice)
        ELSE FromInt(0)

\* The fixed advice list of the report.
ReportAdvice ==
    <<"Choose organic products when possible",
      "Use reusable bags and containers",
      "Buy local produce to reduce transport emissions",
      "Select energy-efficient appliances",
      "Reduce single-use plastic items",
      "Consider second-hand or refurbished items",
      "Support sustainable brands and certifications">>

\* SustainabilityEngine.generate_sustainability_report
generate_sustainability_report(user_data) ==
    LET carbon_footprint == calculate_carbon_footprint(Get(user_data, "cart", <<>>))
    IN  [carbon_footprint |-> carbon_footprint,
         eco_grade |-> EcoGrade(carbon_footprint),
         eco_score |-> EcoScore(carbon_footprint),
         recommendations |-> ReportAdvice]

(***************************************************************************)
(* SpecCart: the sustainability engine on the session's cart.              *)
(***************************************************************************)
MaxCart  == 2
MaxMeat  == 12
MaxLocal == 5
MaxTail  == 2

\* Item descriptions: one for each keyword, in mixed case, one with no
\* keyword and some with two keywords.
CartItems ==
    {"Organic Milk", "organic milk", "Electronics Kit", "Kids CLOTHING",
     "Meatballs", "Dairy Cream", "Local Honey", "Plastic Bottle", "sneakers",
     "Organic Plastic Wrap", "Local Dairy Butter"}

TailItems == {"Organic Milk", "Electronics Kit", "Meatballs"}

Repeat(item, n) == [k \in 1..n |-> item]

SeqsUpTo(S, n) == UNION {[1..k -> S] : k \in 0..n}

\* Large carts: some of the costliest item, some of the cheapest, a few more.
BulkCarts ==
    {Repeat("Meatballs", i) \o Repeat("Local Honey", j) \o tail :
        i \in 0..MaxMeat, j \in 0..MaxLocal, tail \in SeqsUpTo(TailItems, MaxTail)}

\* Carts around the edge of the best band: one costlier item, then some of
\* the cheapest, then at most one more.
EdgeCarts ==
    {<<head>> \o Repeat("Local Honey", j) \o tail :
        head \in TailItems, j \in 0..MaxLocal, tail \in SeqsUpTo(TailItems, 1)}

\* The session with some cart in it; the aura fields are the defaults of
\* initialize_session_state.
InitCart ==
    /\ stress_level = DefaultStress
    /\ energy_level = DefaultEnergy
    /\ weather = DefaultWeather
    /\ aura_state = "Balanced"
    /\ cart \in SeqsUpTo(CartItems, MaxCart) \cup BulkCarts \cup EdgeCarts
    /\ calendar_events = DefaultCalendar
    /\ purchase_history = <<>>
    /\ health_goals = DefaultHealthGoals
    /\ fitness_data = DefaultFitness
    /\ hash_seed = 0
    /\ now = StartOfYear
    /\ request = NoRequest
    /\ wishlist = <<>>
    /\ users = FreshStore
    /\ last = NoCall

\* "Add to Cart" (lines 1385-1388): the item is appended and the page reruns.
AddToCart ==
    \E item \in CartItems :
        /\ Len(cart) < MaxCart
        /\ cart' = Append(cart, item)
        /\ last' = NoCall
        /\ UNCHANGED <<stress_level, energy_level, weather, aura_state,
                       calendar_events, purchase_history, health_goals,
                       fitness_data, hash_seed, now, request, wishlist, users>>

\* calculate_carbon_footprint on the session's cart.
CalculateFootprint ==
    /\ last' = [op |-> "calculate_carbon_footprint", arg |-> cart,
                ret |-> calculate_carbon_footprint(cart)]
    /\ UNCHANGED <<stress_level, energy_level, weather, aura_state, cart,
                   calendar_events, purchase_history, health_goals,
                   fitness_data, hash_seed, now, request, wishlist, users>>

\* generate_sustainability_report on a record holding the session's cart, or
\* on a record without the field cart (line 896 reads it with user_data.get).
GenerateReport ==
    \E user_data \in {<<>>} \cup {"cart" :> cart} :
        /\ last' = [op |-> "generate_sustainability_report", arg |-> user_data,
                    ret |-> generate_sustainability_report(user_data)]
        /\ UNCHANGED <<stress_level, energy_level, weather, aura_state, cart,
                       calendar_events, purchase_history, health_goals,
                       fitness_data, hash_seed, now, request, wishlist, users>>

NextCart == AddToCart \/ CalculateFootprint \/ GenerateReport

SpecCart == InitCart /\ [][NextCart]_vars

\* The keywords and their costs in the order the claim lists them.
C8_Keywords ==
    << <<"organic", Cost_0_5>>, <<"electronics", Cost_3_0>>,
       <<"clothing", Cost_2_0>>, <<"meat", Cost_4_0>>, <<"dairy", Cost_1_5>>,
       <<"local", Cost_0_3>>, <<"plastic", Cost_2_5>> >>

\* The cost of the first listed keyword occurring in the lower-cased item,
\* 1.0 when none occurs.
C8_Cost(item) ==
    LET hits == {k \in 1..Len(C8_Keywords) : Contains(C8_Keywords[k][1], Lower(item))}
    IN  IF hits = {} THEN Cost_1_0
        ELSE C8_Keywords[CHOOSE k \in hits : \A m \in hits : k <= m][2]

RECURSIVE C8_Sum(_, _, _)
\* The sum, from left to right, of the claimed costs of items[i..], added to acc.
C8_Sum(items, i, acc) ==
    IF i > Len(items) \/ acc[1] < 0 THEN acc
    ELSE C8_Sum(items, i + 1, FAdd(acc, C8_Cost(items[i])))

\* C8: the footprint is the sum over the items of the cost of the first
\* keyword, in the order organic, electronics, clothing, meat, dairy, local,
\* plastic, found in the lower-cased item, 1.0 when none is found; an item
\* with "organic" and "plastic" costs 0.5, ["organic milk"] gives 0.5 and
\* ["sneakers"] gives 1.0.
C8_FootprintByFirstKeyword ==
    (last.op = "calculate_carbon_footprint") =>
        /\ last.ret = C8_Sum(last.arg, 1, FromInt(0))
        /\ last.arg = <<"organic milk">> => last.ret = Cost_0_5
        /\ last.arg = <<"sneakers">> => last.ret = Cost_1_0
        /\ (/\ Len(last.arg) = 1
            /\ Contains("organic", Lower(last.arg[1]))
            /\ Contains("plastic", Lower(last.arg[1]))) => last.ret = Cost_0_5

\* The footprint of a mixed-case item holding "organic" and "plastic", after
\* another item, was computed: 1.0 + 0.5.
C8_Witness ==
    /\ last.op = "calculate_carbon_footprint"
    /\ last.arg = <<"sneakers", "Organic Plastic Wrap">>
    /\ last.ret = <<96, 0, 0>>

\* x <= y for floats.
C9_Leq(x, y) == ~FxLess(y, x)

\* C9: the report's grade is A+ for footprint < 5, A for 5 <= footprint < 10,
\* B+ for 10 <= footprint < 20, B for 20 <= footprint < 30 and C from 30 on,
\* and exactly one of them; 4.9, 9.9, 19.9 and 29.9 are on the better side of
\* their edge and 30.0 is C.
C9_GradeBands ==
    (last.op = "generate_sustainability_report") =>
        LET f == last.ret.carbon_footprint
            g == last.ret.eco_grade
        IN  /\ g \in {"A+", "A", "B+", "B", "C"}
            /\ g = "A+" <=> FxLess(f, FromInt(5))
            /\ g = "A"  <=> (C9_Leq(FromInt(5), f) /\ FxLess(f, FromInt(10)))
            /\ g = "B+" <=> (C9_Leq(FromInt(10), f) /\ FxLess(f, FromInt(20)))
            /\ g = "B"  <=> (C9_Leq(FromInt(20), f) /\ FxLess(f, FromInt(30)))
            /\ g = "C"  <=> C9_Leq(FromInt(30), f)
            /\ EcoGrade(<<313, 10066329, 10066336>>) = "A+"    \* 4.9
            /\ EcoGrade(<<633, 10066329, 10066336>>) = "A"     \* 9.9
            /\ EcoGrade(<<1273, 10066329, 10066304>>) = "B+"   \* 19.9
            /\ EcoGrade(<<1913, 10066329, 10066304>>) = "B"    \* 29.9
            /\ EcoGrade(FromInt(30)) = "C"                     \* 30.0

\* A cart whose footprint is exactly 30.0 was reported, with grade C.
C9_Witness ==
    /\ last.op = "generate_sustainability_report"
    /\ last.ret.carbon_footprint = FromInt(30)
    /\ last.ret.eco_grade = "C"

\* C10: the eco_score is max(0, 100 - 2 * footprint): between 0 and 100, 0
\* for every footprint of 50 or more, and otherwise positive and the double
\* nearest to 100 - 2 * footprint (at most half a unit in the last place,
\* 2^-47, away from it).
C10_EcoScore ==
    (last.op = "generate_sustainability_report") =>
        LET f     == last.ret.carbon_footprint
            score == last.ret.eco_score
            exact == FxSub(FromInt(100), FxAdd(f, f))
            gap   == IF FxLess(score, exact) THEN FxSub(exact, score)
                     ELSE FxSub(score, exact)
        IN  /\ C9_Leq(FromInt(0), score)
            /\ C9_Leq(score, FromInt(100))
            /\ C9_Leq(FromInt(50), f) => score = FromInt(0)
            /\ FxLess(f, FromInt(50)) =>
                   /\ FxLess(FromInt(0), score)
                   /\ C9_Leq(gap, <<0, 0, 128>>)

\* A cart of footprint 50 or more was reported with eco_score 0.
C10_Witness ==
    /\ last.op = "generate_sustainability_report"
    /\ C9_Leq(FromInt(50), last.ret.carbon_footprint)
    /\ last.ret.eco_score = FromInt(0)

(***************************************************************************)
(* PredictiveEngine                                                        *)
(***************************************************************************)
Months == 1..12

\* The table of _seasonal_predictions.
seasonal_needs ==
    (12 :> <<"Winter clothes", "Holiday gifts", "Comfort food", "Indoor activities", "Heating supplies">>)
    @@ (1 :> <<"Fitness equipment", "Healthy food", "Organization tools", "New year supplies", "Winter gear">>)
    @@ (2 :> <<"Valentine's gifts", "Winter clearance", "Indoor activities", "Heart health products", "Love-themed items">>)
    @@ (3 :> <<"Spring cleaning", "Garden supplies", "Allergy relief", "Fresh produce", "Outdoor preparation">>)
    @@ (4 :> <<"Spring fashion", "Outdoor gear", "Fresh produce", "Easter items", "Allergy medication">>)
    @@ (5 :> <<"Summer prep", "Sunscreen", "BBQ supplies", "Mother's Day gifts", "Graduation gifts">>)
    @@ (6 :> <<"Summer clothes", "Travel gear", "Ice cream", "Father's Day gifts", "Outdoor furniture">>)
    @@ (7 :> <<"Vacation items", "Swimwear", "Cooling products", "Summer sports", "Outdoor entertainment">>)
    @@ (8 :> <<"Back to school", "Summer clearance", "Prep for fall", "School supplies", "Fall fashion preview">>)
    @@ (9 :> <<"Fall fashion", "School supplies", "Warm beverages", "Halloween prep", "Comfort foods">>)
    @@ (10 :> <<"Halloween items", "Autumn decor", "Comfort foods", "Warm clothing", "Seasonal produce">>)
    @@ (11 :> <<"Thanksgiving prep", "Winter prep", "Holiday planning", "Gratitude gifts", "Warm clothing">>)

\* PredictiveEngine._seasonal_predictions; current_month is datetime.now().month.
seasonal_predictions(user_data, current_month) ==
    Get(seasonal_needs, current_month, <<>>)

\* The elements of seq.
Range(seq) == {seq[i] : i \in 1..Len(seq)}

\* The index of the first occurrence of x in seq.
FirstIndex(seq, x) ==
    CHOOSE i \in 1..Len(seq) : seq[i] = x /\ \A j \in 1..(i - 1) : seq[j] # x

\* _behavioral_predictions with the sorted list turned around, so that of
\* categories with equal counts the later one comes first.
Mut_behavioral_predictions_TiesReversed(user_data) ==
    LET history == Get(user_data, "purchase_history", <<>>)
        category(i) == Get(history[i], "category", "General")
        seen == [i \in 1..Len(history) |-> category(i)]
        keys == {seen[i] : i \in 1..Len(history)}
        count(c) == Cardinality({i \in 1..Len(history) : seen[i] = c})
        before(c1, c2) ==
            \/ count(c1) > count(c2)
            \/ count(c1) = count(c2) /\ FirstIndex(seen, c1) > FirstIndex(seen, c2)
        rank(c) == Cardinality({c2 \in keys : before(c2, c)})
        ranked == [k \in 1..Cardinality(keys) |-> CHOOSE c \in keys : rank(c) = k - 1]
        top_categories == SubSeq(ranked, 1, IF Len(ranked) < 3 THEN Len(ranked) ELSE 3)
    IN  IF history = <<>>
        THEN <<"Basic necessities", "Popular items", "Trending products">>
        ELSE [k \in 1..Len(top_categories) |->
                "More " \o top_categories[k] \o " items"]

\* PredictiveEngine._behavioral_predictions
behavioral_predictions(user_data) ==
    LET history == Get(user_data, "purchase_history", <<>>)
        category(i) == Get(history[i], "category", "General")
        seen == [i \in 1..Len(history) |-> category(i)]
        \* the dict `categories`: its keys, in insertion order, and its counts
        keys == {seen[i] : i \in 1..Len(history)}
        count(c) == Cardinality({i \in 1..Len(history) : seen[i] = c})
        \* sorted(..., reverse=True) is stable: equal counts keep dict order
        before(c1, c2) ==
            \/ count(c1) > count(c2)
            \/ count(c1) = count(c2) /\ FirstIndex(seen, c1) < FirstIndex(seen, c2)
        \* the keys as a list, the key with fewest keys before it first
        rank(c) == Cardinality({c2 \in keys : before(c2, c)})
        ranked == [k \in 1..Cardinality(keys) |-> CHOOSE c \in keys : rank(c) = k - 1]
        top_categories == SubSeq(ranked, 1, IF Len(ranked) < 3 THEN Len(ranked) ELSE 3)
    IN  IF history = <<>>
        THEN <<"Basic necessities", "Popular items", "Trending products">>
        ELSE [k \in 1..Len(top_categories) |->
                "More " \o top_categories[k] \o " items"]

\* The chain of _social_predictions testing 'party' before 'birthday'.
Mut_SocialOf_PartyFirst(event) ==
    LET low == Lower(event)
    IN  IF Contains("party", low) THEN <<"Party supplies and decorations">>
        ELSE IF Contains("birthday", low) THEN <<"Gift ideas for birthday celebration">>
        ELSE IF Contains("meeting", low) THEN <<"Professional attire and accessories">>
        ELSE IF Contains("bbq", low) THEN <<"BBQ essentials and outdoor dining">>
        ELSE IF Contains("gym", low) THEN <<"Fitness gear and protein supplements">>
        ELSE <<>>

\* What one calendar event adds in _social_predictions: a list of 0 or 1.
SocialOf(event) ==
    LET low == Lower(event)
    IN  IF Contains("birthday", low) THEN <<"Gift ideas for birthday celebration">>
        ELSE IF Contains("party", low) THEN <<"Party supplies and decorations">>
        ELSE IF Contains("meeting", low) THEN <<"Professional attire and accessories">>
        ELSE IF Contains("bbq", low) THEN <<"BBQ essentials and outdoor dining">>
        ELSE IF Contains("gym", low) THEN <<"Fitness gear and protein supplements">>
        ELSE <<>>

RECURSIVE SocialLoop(_, _)
\* The loop of _social_predictions over the first n events.
SocialLoop(events, n) ==
    IF n = 0 THEN <<>> ELSE SocialLoop(events, n - 1) \o SocialOf(events[n])

\* PredictiveEngine._social_predictions
social_predictions(user_data) ==
    LET events == Get(user_data, "calendar_events", <<>>)
        found == SocialLoop(events, Len(events))
    IN  IF found = <<>> THEN <<"Social gathering items">> ELSE found

DefaultAge == 30

\* _lifecycle_predictions with the ages 25, 35 and 50 in the younger bucket.
Mut_lifecycle_predictions_Inclusive(user_data) ==
    LET age == Get(user_data, "age", DefaultAge)
    IN  IF age <= 25
        THEN <<"Tech gadgets", "Fashion items", "Entertainment", "Education supplies", "Social activities">>
        ELSE IF age <= 35
        THEN <<"Career items", "Home improvement", "Travel", "Investment tools", "Skill development">>
        ELSE IF age <= 50
        THEN <<"Family items", "Health products", "Home essentials", "Children's needs", "Long-term planning">>
        ELSE <<"Comfort items", "Health supplements", "Hobby supplies", "Relaxation tools", "Wellness products">>

\* PredictiveEngine._lifecycle_predictions
lifecycle_predictions(user_data) ==
    LET age == Get(user_data, "age", DefaultAge)
    IN  IF age < 25
        THEN <<"Tech gadgets", "Fashion items", "Entertainment", "Education supplies", "Social activities">>
        ELSE IF age < 35
        THEN <<"Career items", "Home improvement", "Travel", "Investment tools", "Skill development">>
        ELSE IF age < 50
        THEN <<"Family items", "Health products", "Home essentials", "Children's needs", "Long-term planning">>
        ELSE <<"Comfort items", "Health supplements", "Hobby supplies", "Relaxation tools", "Wellness products">>

\* _contextual_predictions with noon in the morning and 17h in the afternoon.
Mut_contextual_predictions_NoonMorning(user_data, time_of_day) ==
    LET wthr == Get(user_data, "weather", "Sunny")
        by_weather ==
            IF wthr = "Rainy"
            THEN <<"Umbrellas", "Raincoats", "Indoor activities", "Comfort food">>
            ELSE IF wthr = "Sunny"
            THEN <<"Sunscreen", "Outdoor gear", "Cold beverages", "Summer clothing">>
            ELSE IF wthr = "Snowy"
            THEN <<"Winter gear", "Heating supplies", "Hot beverages", "Snow activities">>
            ELSE <<>>
        by_time ==
            IF time_of_day <= 12
            THEN <<"Breakfast items", "Coffee", "Morning supplements">>
            ELSE IF time_of_day <= 17
            THEN <<"Lunch options", "Afternoon snacks", "Energy drinks">>
            ELSE <<"Dinner ingredients", "Evening relaxation", "Night-time products">>
    IN  by_weather \o by_time

\* PredictiveEngine._contextual_predictions; time_of_day is datetime.now().hour.
contextual_predictions(user_data, time_of_day) ==
    LET wthr == Get(user_data, "weather", "Sunny")
        by_weather ==
            IF wthr = "Rainy"
            THEN <<"Umbrellas", "Raincoats", "Indoor activities", "Comfort food">>
            ELSE IF wthr = "Sunny"
            THEN <<"Sunscreen", "Outdoor gear", "Cold beverages", "Summer clothing">>
            ELSE IF wthr = "Snowy"
            THEN <<"Winter gear", "Heating supplies", "Hot beverages", "Snow activities">>
            ELSE <<>>
        by_time ==
            IF time_of_day < 12
            THEN <<"Breakfast items", "Coffee", "Morning supplements">>
            ELSE IF time_of_day < 17
            THEN <<"Lunch options", "Afternoon snacks", "Energy drinks">>
            ELSE <<"Dinner ingredients", "Evening relaxation", "Night-time products">>
    IN  by_weather \o by_time

\* _health_predictions with 5000 steps and 8 glasses below the thresholds.
Mut_health_predictions_Inclusive(user_data) ==
    LET goals == Get(user_data, "health_goals", <<>>)
        fitness == Get(user_data, "fitness_data", <<>>)
    IN  (IF "Weight Management" \in Range(goals)
         THEN <<"Healthy snacks", "Portion control tools", "Fitness equipment">>
         ELSE <<>>)
        \o (IF "Heart Health" \in Range(goals)
            THEN <<"Heart-healthy foods", "Omega-3 supplements", "Exercise gear">>
            ELSE <<>>)
        \o (IF Get(fitness, "steps", 0) <= 5000
            THEN <<"Activity trackers and motivation tools">> ELSE <<>>)
        \o (IF Get(fitness, "water", 0) <= 8
            THEN <<"Water bottles and hydration reminders">> ELSE <<>>)

\* PredictiveEngine._health_predictions
health_predictions(user_data) ==
    LET goals == Get(user_data, "health_goals", <<>>)
        fitness == Get(user_data, "fitness_data", <<>>)
    IN  (IF "Weight Management" \in Range(goals)
         THEN <<"Healthy snacks", "Portion control tools", "Fitness equipment">>
         ELSE <<>>)
        \o (IF "Heart Health" \in Range(goals)
            THEN <<"Heart-healthy foods", "Omega-3 supplements", "Exercise gear">>
            ELSE <<>>)
        \o (IF Get(fitness, "steps", 0) < 5000
            THEN <<"Activity trackers and motivation tools">> ELSE <<>>)
        \o (IF Get(fitness, "water", 0) < 8
            THEN <<"Water bottles and hydration reminders">> ELSE <<>>)

(***************************************************************************)
(* list(set(...)).  A Python set of strings is a hash table, and a list    *)
(* made from it has the table's slot order.  The hash of a string depends  *)
(* on a seed the interpreter draws when it starts, so the order is fixed   *)
(* within a run and differs between runs.  The table is modelled by a      *)
(* seeded polynomial hash: elements come out by increasing hash value, and *)
(* elements with the same hash value in the order they were inserted.      *)
(***************************************************************************)
Alphabet ==
    " '-0123456789ABCDEFGHIJKLMNOPQRSTUVWXYZabcdefghijklmnopqrstuvwxyz"

CharCode ==
    [c \in {CharAt(Alphabet, i) : i \in 1..Len(Alphabet)} |->
        CHOOSE i \in 1..Len(Alphabet) : CharAt(Alphabet, i) = c]

HashModulus == 2^13 - 1

RECURSIVE StrHash(_, _, _)
\* The hash of the first n characters of s under the seed.
StrHash(s, n, seed) ==
    IF n = 0 THEN seed + 1
    ELSE (StrHash(s, n - 1, seed) * 31
            + Get(CharCode, CharAt(s, n), 0)) % HashModulus

\* The elements held in the slots of a table, in slot order.
Elements(table) == [k \in 1..Len(table) |-> table[k][3]]

\* One slot of the table: <<hash value, place of insertion, element>>.
SlotBefore(a, b) == a[1] < b[1] \/ (a[1] = b[1] /\ a[2] < b[2])

\* list(set(items)) under the seed: each element is inserted where it first
\* occurs in items, and the slots are read in order.
ListOfSet(items, seed) ==
    LET slot(i) == <<StrHash(items[i], Len(items[i]), seed), i, items[i]>>
        inserted(i) == \A j \in 1..(i - 1) : items[j] # items[i]
        RECURSIVE Slots(_)
        Slots(n) ==
            IF n = 0 THEN <<>>
            ELSE IF inserted(n) THEN Append(Slots(n - 1), slot(n))
            ELSE Slots(n - 1)
    IN  Elements(SortSeq(Slots(Len(items)), SlotBefore))

PredictionCap == 15

\* list[:n]
Take(seq, n) == SubSeq(seq, 1, IF Len(seq) < n THEN Len(seq) ELSE n)

\* The loop of generate_predictions ending at the first model with output.
Mut_all_predictions_FirstOnly(user_data, month, hour) ==
    IF seasonal_predictions(user_data, month) # <<>>
    THEN seasonal_predictions(user_data, month)
    ELSE behavioral_predictions(user_data)

\* The loop of generate_predictions over the six models, in the order of the
\* dict prediction_models.
all_predictions(user_data, month, hour) ==
    seasonal_predictions(user_data, month)
        \o behavioral_predictions(user_data)
        \o social_predictions(user_data)
        \o lifecycle_predictions(user_data)
        \o contextual_predictions(user_data, hour)
        \o health_predictions(user_data)

\* generate_predictions without the set: the first entries of the plain list.
Mut_generate_predictions_NoSet(user_data, month, hour, seed) ==
    Take(all_predictions(user_data, month, hour), PredictionCap)

\* PredictiveEngine.generate_predictions; month and hour are what the clock
\* says, seed is the interpreter's hash seed.
generate_predictions(user_data, month, hour, seed) ==
    LET unique_predictions == ListOfSet(all_predictions(user_data, month, hour), seed)
    IN  Take(unique_predictions, PredictionCap)

(***************************************************************************)
(* SpecPredict: the pages that show predictions.  The session holds some   *)
(* weather, calendar, purchase history and health data; the interpreter    *)
(* has drawn its hash seed; the clock is read at each call.                *)
(***************************************************************************)
MaxEvents  == 2
MaxHistory == 2
MaxSeed    == 1

EventSamples == {"Friend's Birthday", "Birthday Party"}

PurchaseSamples == {[category |-> "Grocery"], [name |-> "Gift card"]}

HourSamples == {9, 14, 20}

FitFitness == [steps |-> 5000, calories |-> 2100, water |-> 8]

\* st.session_state.family_members (line 90); no page changes it.
DefaultFamily == <<"Sam", "Taylor">>

\* The session as initialized, but for its weather, calendar, purchase
\* history or health data, or all of them at their barest.
InitPredict ==
    /\ stress_level = DefaultStress
    /\ energy_level = DefaultEnergy
    /\ aura_state = "Balanced"
    /\ cart = <<>>
    /\ hash_seed \in 0..MaxSeed
    /\ now \in [month : Months, hour : HourSamples]
    /\ request = NoRequest
    /\ wishlist = <<>>
    /\ users = FreshStore
    /\ last = NoCall
    /\ \/ /\ weather \in Weathers
          /\ calendar_events = DefaultCalendar
          /\ purchase_history = <<>>
          /\ health_goals = DefaultHealthGoals
          /\ fitness_data = DefaultFitness
       \/ /\ weather = DefaultWeather
          /\ calendar_events \in SeqsUpTo(EventSamples, MaxEvents)
          /\ purchase_history = <<>>
          /\ health_goals = DefaultHealthGoals
          /\ fitness_data = DefaultFitness
       \/ /\ weather = DefaultWeather
          /\ calendar_events = DefaultCalendar
          /\ purchase_history \in SeqsUpTo(PurchaseSamples, MaxHistory)
          /\ health_goals = DefaultHealthGoals
          /\ fitness_data = DefaultFitness
       \/ /\ weather = DefaultWeather
          /\ calendar_events = DefaultCalendar
          /\ purchase_history = <<>>
          /\ health_goals \in {<<>>, <<"Heart Health">>}
          /\ fitness_data \in {DefaultFitness, FitFitness}
       \/ /\ weather = "Cloudy"
          /\ calendar_events = <<>>
          /\ purchase_history = <<[category |-> "Grocery"]>>
          /\ health_goals = <<>>
          /\ fitness_data = FitFitness

\* The record the dashboard builds (lines 1396-1404): no purchase history,
\* no age.
DashboardData ==
    [stress_level |-> stress_level, energy_level |-> energy_level,
     weather |-> weather, calendar_events |-> calendar_events,
     family_members |-> DefaultFamily,
     health_goals |-> health_goals, fitness_data |-> fitness_data]

\* The record the predictions page builds (lines 1659-1670).
PredictionPageData ==
    [stress_level |-> stress_level, energy_level |-> energy_level,
     weather |-> weather, calendar_events |-> calendar_events,
     family_members |-> DefaultFamily,
     purchase_history |-> purchase_history, health_goals |-> health_goals,
     fitness_data |-> fitness_data, age |-> 30]

\* generate_predictions on user_data, at the month and hour of this run.
Predict(user_data) ==
    /\ last' = [op |-> "generate_predictions", arg |-> user_data,
                month |-> now.month, hour |-> now.hour,
                ret |-> generate_predictions(user_data, now.month, now.hour, hash_seed)]
    /\ UNCHANGED <<stress_level, energy_level, weather, aura_state, cart,
                   calendar_events, purchase_history, health_goals,
                   fitness_data, hash_seed, now, request, wishlist, users>>

\* The dashboard's "AI Insights" (line 1407).
ShowInsights == Predict(DashboardData)

\* The predictions page (line 1672).
ShowPredictions == Predict(PredictionPageData)

\* The script runs again, at any time, and the previous run's values are gone.
Rerun ==
    /\ now' \in [month : Months, hour : HourSamples]
    /\ last' = NoCall
    /\ UNCHANGED <<stress_level, energy_level, weather, aura_state, cart,
                   calendar_events, purchase_history, health_goals,
                   fitness_data, hash_seed, request, wishlist, users>>

NextPredict == ShowInsights \/ ShowPredictions \/ Rerun

SpecPredict == InitPredict /\ [][NextPredict]_vars

\* The last call was generate_predictions.
PredictCalled == last.op = "generate_predictions"

\* The concatenation of the six sub-model outputs of the last call.
LastAll == all_predictions(last.arg, last.month, last.hour)

\* C6: the list generate_predictions returns has at most 15 entries and no
\* string twice.
C6_CappedAndDistinct ==
    PredictCalled =>
        /\ Len(last.ret) <= 15
        /\ \A i, j \in 1..Len(last.ret) : i # j => last.ret[i] # last.ret[j]

\* A call whose concatenated outputs held a string twice among the first 15
\* and more than 15 different strings.
C6_Witness ==
    /\ PredictCalled
    /\ Len(last.ret) = 15
    /\ Cardinality(Range(LastAll)) > 15
    /\ \E i, j \in 1..15 : i < j /\ LastAll[i] = LastAll[j]

RECURSIVE C7_Dedup(_, _)
\* The first n entries of seq without the entries that occurred before.
C7_Dedup(seq, n) ==
    IF n = 0 THEN <<>>
    ELSE IF \E j \in 1..(n - 1) : seq[j] = seq[n] THEN C7_Dedup(seq, n - 1)
    ELSE Append(C7_Dedup(seq, n - 1), seq[n])

\* C7 (as claimed): generate_predictions returns the first 15 entries of the
\* order-preserving deduplication of the six outputs concatenated in the
\* order seasonal, behavioral, social, lifecycle, contextual, health.
C7_FirstSeenOrderAsClaimed ==
    PredictCalled =>
        LET dedup == C7_Dedup(LastAll, Len(LastAll))
        IN  last.ret = SubSeq(dedup, 1, IF Len(dedup) < 15 THEN Len(dedup) ELSE 15)

(***************************************************************************)
(* SustainabilityEngine.get_eco_alternatives                               *)
(***************************************************************************)
\* The dict `alternatives` of lines 881-892.
alternatives ==
    ("plastic bottle" :> "Reusable stainless steel bottle")
    @@ ("paper towels" :> "Reusable cloth towels")
    @@ ("regular detergent" :> "Eco-friendly detergent")
    @@ ("disposable bags" :> "Reusable shopping bags")
    @@ ("incandescent bulbs" :> "LED bulbs")
    @@ ("plastic containers" :> "Glass storage containers")
    @@ ("fast fashion" :> "Sustainable clothing brands")
    @@ ("conventional produce" :> "Organic produce")
    @@ ("single-use items" :> "Reusable alternatives")
    @@ ("synthetic materials" :> "Natural materials")

\* get_eco_alternatives looking the name up as given.
Mut_get_eco_alternatives_NoLower(product_name) ==
    Get(alternatives, product_name, "Eco-friendly " \o product_name)

\* SustainabilityEngine.get_eco_alternatives (line 893).
get_eco_alternatives(product_name) ==
    Get(alternatives, Lower(product_name), "Eco-friendly " \o product_name)

(***************************************************************************)
(* process_voice_command                                                   *)
(***************************************************************************)
Whitespace == {" ", "\t", "\n"}

RECURSIVE LStrip(_)
\* s without its leading whitespace.
LStrip(s) ==
    IF Len(s) > 0 /\ CharAt(s, 1) \in Whitespace
    THEN LStrip(SubSeq(s, 2, Len(s)))
    ELSE s

RECURSIVE RStrip(_)
\* s without its trailing whitespace.
RStrip(s) ==
    IF Len(s) > 0 /\ CharAt(s, Len(s)) \in Whitespace
    THEN RStrip(SubSeq(s, 1, Len(s) - 1))
    ELSE s

\* str.strip
Strip(s) == RStrip(LStrip(s))

RECURSIVE Join(_, _)
\* sep.join(items)
Join(sep, items) ==
    IF Len(items) = 0 THEN ""
    ELSE IF Len(items) = 1 THEN items[1]
    ELSE items[1] \o sep \o Join(sep, Tail(items))

\* st.session_state.community_trends (line 92); no page changes it.
DefaultTrends == <<"Plant-based snacks", "Local honey", "Sustainable packaging">>

\* The responses of lines 946-993, by branch.
AddOrganicResponse ==
    "I've added organic products to your cart based on your preferences."
AddEcoResponse ==
    "I've added eco-friendly items to your cart. These choices help reduce your carbon footprint."
AddResponse ==
    "I've added the requested items to your cart. Is there anything else you'd like to add?"
SearchEcoResponse ==
    "Here are some eco-friendly alternatives that match your preferences and reduce environmental impact."
SearchGiftResponse ==
    "Based on your recipient's interests and your budget, here are some thoughtful gift recommendations."
SearchResponse ==
    "I found several products matching your search. Here are the top recommendations based on your aura and preferences."
TrendingResponse(trends) ==
    "In your area, the top trending items are: "
    \o Join(", ", Take(trends, 3))
    \o ". These are popular among users with similar preferences."
DeliveryResponse ==
    "I can schedule delivery for tomorrow between 9 AM - 6 PM. Would you like express delivery or standard shipping?"
PriceResponse ==
    "I found several great products within your budget. Here are the top recommendations sorted by value and rating."
GiftResponse ==
    "Based on your friend's interests and recent activities, I recommend these thoughtful gift options that align with their hobbies."
WeatherResponse(wthr) ==
    "Given today's " \o Lower(wthr)
    \o " weather, I recommend these items to keep you comfortable and prepared."
HealthResponse ==
    "Based on your health goals and fitness data, here are some products that can support your wellness journey."
CarbonResponse ==
    "I can show you the environmental impact of your choices and suggest alternatives to reduce your carbon footprint."
GeneralResponse ==
    "I understand you're looking for assistance. Let me help you find exactly what you need based on your current aura, preferences, and context."

\* The first definition of process_voice_command (lines 939-993); session is
\* st.session_state.
process_voice_command_1(command, session) ==
    LET cmd == Strip(Lower(command))
        has(word) == Contains(word, cmd)
    IN  IF has("add") /\ has("cart")
        THEN IF has("organic") THEN AddOrganicResponse
             ELSE IF has("eco") \/ has("sustainable") THEN AddEcoResponse
             ELSE AddResponse
        ELSE IF has("find") \/ has("search")
        THEN IF has("eco") \/ has("sustainable") THEN SearchEcoResponse
             ELSE IF has("gift") THEN SearchGiftResponse
             ELSE SearchResponse
        ELSE IF has("trending") THEN TrendingResponse(session.community_trends)
        ELSE IF has("delivery") \/ has("schedule") THEN DeliveryResponse
        ELSE IF has("price") \/ has("under") \/ has("$") THEN PriceResponse
        ELSE IF has("gift") \/ has("friend") THEN GiftResponse
        ELSE IF has("weather") THEN WeatherResponse(session.weather)
        ELSE IF has("health") \/ has("wellness") THEN HealthResponse
        ELSE IF has("carbon") \/ has("environment") THEN CarbonResponse
        ELSE GeneralResponse

\* The second definition of process_voice_command (lines 1800-1802).
process_voice_command_2(command) == "You said: " \o command

\* The name bound to the first definition, as if line 1800 did not exist.
Mut_process_voice_command_First(command, session) ==
    process_voice_command_1(command, session)

\* What the name process_voice_command is bound to when the module has run:
\* each def statement binds the name anew, so the definition of line 1800
\* replaces the one of line 939 before main_nexus_app (line 1885) runs.
process_voice_command(command, session) == process_voice_command_2(command)

(***************************************************************************)
(* SpecEngines: the engines and the voice command function called          *)
(* directly, each on an argument of its own kind.  The request is fixed    *)
(* at the start; the call answers it.                                      *)
(***************************************************************************)
ProductNames ==
    DOMAIN alternatives
    \cup {"Plastic Bottle", "PLASTIC BOTTLE", "Fast Fashion", "LED Bulbs",
          "xyz", "XYZ", "plastic bottles", " plastic bottle", "bottle", ""}

\* The session as initialized.
SessionDefaults ==
    /\ wishlist = <<>>
    /\ users = FreshStore
    /\ stress_level = DefaultStress
    /\ energy_level = DefaultEnergy
    /\ aura_state = "Balanced"
    /\ cart = <<>>
    /\ calendar_events = DefaultCalendar
    /\ purchase_history = <<>>
    /\ health_goals = DefaultHealthGoals
    /\ fitness_data = DefaultFitness

\* A request for get_eco_alternatives.
EcoRequest ==
    /\ \E product_name \in ProductNames :
           request = [op |-> "get_eco_alternatives", arg |-> product_name]
    /\ weather \in Weathers
    /\ now = StartOfYear
    /\ hash_seed = 0

Commands ==
    {"add organic to cart", "Add Organic Apples To My Cart",
     "add eco items to cart", "add sustainable soap to my cart",
     "add milk to cart", "add to my list", "cart",
     "find eco gift", "  FIND eco gift  ", "search sustainable shoes",
     "find a gift", "find shoes", "what is trending", "trending gift delivery",
     "schedule delivery", "price under $20", "$", "gift for a friend",
     "how is the weather", "weather and health", "health tips", "wellness",
     "carbon footprint", "environment", "hello", "xyz", ""}

\* A request for process_voice_command.
VoiceRequest ==
    /\ \E command \in Commands :
           request = [op |-> "process_voice_command", arg |-> command]
    /\ weather \in Weathers
    /\ now = StartOfYear
    /\ hash_seed = 0

\* The records that give the field the name one of the values, or lack it.
Optional(name, values) == {<<>>} \cup {name :> v : v \in values}

EngineClocks == {[month |-> 1, hour |-> 9], [month |-> 12, hour |-> 20]}

\* A request for calculate_aura: a context record with any of its fields.
AuraRequest ==
    /\ \E s \in Optional("stress_level", {2, 5, 8}),
          e \in Optional("energy_level", {2, 7, 9}),
          w \in Optional("weather", {"Sunny", "Rainy"}) :
           request = [op |-> "calculate_aura", arg |-> s @@ e @@ w]
    /\ weather = DefaultWeather
    /\ now \in EngineClocks
    /\ hash_seed = 0

\* A request for generate_predictions: a context record with any of its
\* fields.
PredictRequest ==
    /\ \E w \in Optional("weather", {"Sunny", "Cloudy"}),
          c \in Optional("calendar_events", {<<>>, DefaultCalendar}),
          p \in Optional("purchase_history", {<<>>, <<[category |-> "Grocery"]>>}),
          g \in Optional("health_goals", {<<>>, DefaultHealthGoals}),
          f \in Optional("fitness_data", {<<>>, FitFitness}),
          a \in Optional("age", {30, 40}) :
           request = [op |-> "generate_predictions",
                      arg |-> w @@ c @@ p @@ g @@ f @@ a]
    /\ weather = DefaultWeather
    /\ now \in EngineClocks
    /\ hash_seed \in 0..MaxSeed

MaxPurchases == 4
MaxCalendar  == 3

\* Purchases of four categories and one without a category.
PurchaseRecords ==
    {[category |-> "Grocery"], [category |-> "Tech"], [category |-> "Home"],
     [category |-> "Toys"], [name |-> "Gift card"]}

\* Events with one keyword, with two, in capitals, and with none.
EventNames ==
    {"Friend's Birthday", "Birthday Party", "Pool party", "TEAM MEETING",
     "Weekend BBQ", "Gym Session", "Dentist"}

\* A request for _behavioral_predictions: a record with a purchase history.
BehavioralRequest ==
    /\ \E history \in SeqsUpTo(PurchaseRecords, MaxPurchases) :
           request = [op |-> "_behavioral_predictions",
                      arg |-> [purchase_history |-> history]]
    /\ weather = DefaultWeather
    /\ now = StartOfYear
    /\ hash_seed = 0

\* A request for _social_predictions: a record with a calendar.
SocialRequest ==
    /\ \E events \in SeqsUpTo(EventNames, MaxCalendar) :
           request = [op |-> "_social_predictions",
                      arg |-> [calendar_events |-> events]]
    /\ weather = DefaultWeather
    /\ now = StartOfYear
    /\ hash_seed = 0

\* A request for _lifecycle_predictions: a record with or without an age,
\* the ages on, next to and far from the edges of the buckets.
LifecycleRequest ==
    /\ \E a \in Optional("age", {-1, 0, 18, 24, 25, 26, 30, 34, 35, 36,
                                  49, 50, 51, 65, 120}),
          w \in Optional("weather", Weathers) :
           request = [op |-> "_lifecycle_predictions", arg |-> a @@ w]
    /\ weather = DefaultWeather
    /\ now = StartOfYear
    /\ hash_seed = 0

\* A request for _contextual_predictions, at any hour of the clock, with a
\* weather of the selector, a string no branch knows, or none.
ContextualRequest ==
    /\ \E w \in Optional("weather", Weathers \cup {"Windy", "sunny"}) :
           request = [op |-> "_contextual_predictions", arg |-> w]
    /\ weather = DefaultWeather
    /\ now \in [month : {1}, hour : Hours]
    /\ hash_seed = 0

MaxGoals == 2

\* A request for _health_predictions: goals and fitness data, each field of
\* the record and of fitness_data present or not, the step counts and the
\* glasses of water on and next to the thresholds.
HealthRequest ==
    /\ \E g \in Optional("health_goals",
                         SeqsUpTo({"Weight Management", "Heart Health",
                                   "Better Sleep", "heart health"}, MaxGoals)),
          f \in Optional("fitness_data",
                         {st @@ wa :
                             st \in Optional("steps", {0, 4999, 5000, 5001}),
                             wa \in Optional("water", {0, 7, 8, 9})}) :
           request = [op |-> "_health_predictions", arg |-> g @@ f]
    /\ weather = DefaultWeather
    /\ now = StartOfYear
    /\ hash_seed = 0

InitEngines ==
    /\ SessionDefaults
    /\ last = NoCall
    /\ \/ EcoRequest
       \/ VoiceRequest
       \/ AuraRequest
       \/ PredictRequest
       \/ BehavioralRequest
       \/ SocialRequest
       \/ LifecycleRequest
       \/ ContextualRequest
       \/ HealthRequest

\* The call answers the request with ret and changes nothing else.
Answer(ret) ==
    /\ last' = [op |-> request.op, arg |-> request.arg, ret |-> ret]
    /\ UNCHANGED <<stress_level, energy_level, weather, aura_state, cart,
                   calendar_events, purchase_history, health_goals,
                   fitness_data, hash_seed, now, request, wishlist, users>>

\* sustainability_engine.get_eco_alternatives(product_name)
CallGetEcoAlternatives ==
    /\ request.op = "get_eco_alternatives"
    /\ Answer(get_eco_alternatives(request.arg))

\* st.session_state as process_voice_command reads it (lines 963, 980).
VoiceSession == [community_trends |-> DefaultTrends, weather |-> weather]

\* process_voice_command(command)
CallVoiceCommand ==
    /\ request.op = "process_voice_command"
    /\ Answer(process_voice_command(request.arg, VoiceSession))

\* aura_engine.calculate_aura(user_data), at the hour of the clock.
CallAura ==
    /\ request.op = "calculate_aura"
    /\ last' = [op |-> "calculate_aura", arg |-> request.arg, hour |-> now.hour,
                ret |-> calculate_aura(request.arg, now.hour)]
    /\ UNCHANGED <<stress_level, energy_level, weather, aura_state, cart,
                   calendar_events, purchase_history, health_goals,
                   fitness_data, hash_seed, now, request, wishlist, users>>

\* predictive_engine.generate_predictions(user_data), at the month and hour
\* of the clock.
CallPredict ==
    /\ request.op = "generate_predictions"
    /\ last' = [op |-> "generate_predictions", arg |-> request.arg,
                month |-> now.month, hour |-> now.hour,
                ret |-> generate_predictions(request.arg, now.month, now.hour, hash_seed)]
    /\ UNCHANGED <<stress_level, energy_level, weather, aura_state, cart,
                   calendar_events, purchase_history, health_goals,
                   fitness_data, hash_seed, now, request, wishlist, users>>

\* predictive_engine._behavioral_predictions(user_data)
CallBehavioral ==
    /\ request.op = "_behavioral_predictions"
    /\ Answer(behavioral_predictions(request.arg))

\* predictive_engine._social_predictions(user_data)
CallSocial ==
    /\ request.op = "_social_predictions"
    /\ Answer(social_predictions(request.arg))

\* predictive_engine._lifecycle_predictions(user_data)
CallLifecycle ==
    /\ request.op = "_lifecycle_predictions"
    /\ Answer(lifecycle_predictions(request.arg))

\* predictive_engine._contextual_predictions(user_data), at the hour of the
\* clock.
CallContextual ==
    /\ request.op = "_contextual_predictions"
    /\ last' = [op |-> "_contextual_predictions", arg |-> request.arg,
                hour |-> now.hour,
                ret |-> contextual_predictions(request.arg, now.hour)]
    /\ UNCHANGED <<stress_level, energy_level, weather, aura_state, cart,
                   calendar_events, purchase_history, health_goals,
                   fitness_data, hash_seed, now, request, wishlist, users>>

\* predictive_engine._health_predictions(user_data)
CallHealth ==
    /\ request.op = "_health_predictions"
    /\ Answer(health_predictions(request.arg))

NextEngines ==
    \/ CallGetEcoAlternatives
    \/ CallVoiceCommand
    \/ CallAura
    \/ CallPredict
    \/ CallBehavioral
    \/ CallSocial
    \/ CallLifecycle
    \/ CallContextual
    \/ CallHealth

SpecEngines == InitEngines /\ [][NextEngines]_vars

(***************************************************************************)
(* SpecShop: the cart and the wishlist of the dashboard (lines 1385-1388   *)
(* and 1448-1485).  Each button press is one action; the page reruns       *)
(* after it.                                                               *)
(***************************************************************************)
MaxShopCart == 2
MaxWishlist == 4

\* Names of recommended products (lines 1356-1375).
ShopItems == {"Yoga Mat", "Energy Bars"}

\* list.pop(i) of Python, with positions counted from 1.
Pop(list, i) == SubSeq(list, 1, i - 1) \o SubSeq(list, i + 1, Len(list))

\* list.remove taking every occurrence of the item away.
Mut_Remove_All(list, item) ==
    LET keep == {i \in 1..Len(list) : list[i] # item}
        nth(k) == CHOOSE i \in keep : Cardinality({j \in keep : j < i}) = k - 1
    IN  [k \in 1..Cardinality(keep) |-> list[nth(k)]]

\* list.remove(item) of Python: the first occurrence goes; the item is in
\* the list wherever the program calls it.
Remove(list, item) ==
    Pop(list, CHOOSE i \in 1..Len(list) :
                  /\ list[i] = item
                  /\ \A j \in 1..(i - 1) : list[j] # item)

\* The session as initialize_session_state leaves it.
InitShop ==
    /\ stress_level = DefaultStress
    /\ energy_level = DefaultEnergy
    /\ weather = DefaultWeather
    /\ aura_state = "Balanced"
    /\ ShoppingDefaults
    /\ last = NoCall

\* What a button of the cart card leaves alone.
ShopUnchanged ==
    UNCHANGED <<stress_level, energy_level, weather, aura_state,
                calendar_events, purchase_history, health_goals,
                fitness_data, hash_seed, now, request, users>>

\* "Add to Cart" on a product card (lines 1385-1388).
AddProduct ==
    \E item \in ShopItems :
        /\ Len(cart) < MaxShopCart
        /\ cart' = Append(cart, item)
        /\ wishlist' = wishlist
        /\ last' = [op |-> "add_to_cart", arg |-> item]
        /\ ShopUnchanged

\* The cross next to the i-th item of the cart (lines 1455-1462).
RemoveFromCart ==
    \E i \in 1..Len(cart) :
        /\ cart' = Pop(cart, i)
        /\ wishlist' = wishlist
        /\ last' = [op |-> "remove", arg |-> cart[i]]
        /\ ShopUnchanged

\* "Checkout" (lines 1466-1470), shown while the cart has items.
Checkout ==
    /\ cart # <<>>
    /\ cart' = <<>>
    /\ wishlist' = wishlist
    /\ last' = [op |-> "checkout", arg |-> ""]
    /\ ShopUnchanged

\* "Save for Later" (lines 1472-1476), shown while the cart has items.
SaveForLater ==
    /\ cart # <<>>
    /\ Len(wishlist) + Len(cart) <= MaxWishlist
    /\ wishlist' = wishlist \o cart
    /\ cart' = <<>>
    /\ last' = [op |-> "save_for_later", arg |-> ""]
    /\ ShopUnchanged

\* The button of one of the first three wishlist items (lines 1477-1485),
\* shown while the cart is empty.
MoveToCart ==
    /\ cart = <<>>
    /\ \E k \in 1..Len(wishlist) :
           /\ k <= 3
           /\ cart' = Append(cart, wishlist[k])
           /\ wishlist' = Remove(wishlist, wishlist[k])
           /\ last' = [op |-> "wishlist_to_cart", arg |-> wishlist[k]]
    /\ ShopUnchanged

NextShop ==
    \/ AddProduct
    \/ RemoveFromCart
    \/ Checkout
    \/ SaveForLater
    \/ MoveToCart

SpecShop == InitShop /\ [][NextShop]_vars

(***************************************************************************)
(* SpecUsers: the table users under logins, registrations and runs of the  *)
(* script, each of which calls init_comprehensive_db (line 264).  The      *)
(* database file outlives the process, so a run may find rows in it; no    *)
(* statement of the program sets is_active to 0, the one inactive row is   *)
(* the work of whoever administers the file.                               *)
(***************************************************************************)
MaxUsers == 2
MaxFailed == 2

Usernames == {"admin", "bob", "eve"}

\* A table with a row that was deactivated.
DeactivatedStore ==
    Append(FreshStore,
           [NewRow(FreshStore, "eve", hash_password("secret1"),
                   "eve@example.com", "user") EXCEPT !.is_active = 0])

InitUsers ==
    /\ stress_level = DefaultStress
    /\ energy_level = DefaultEnergy
    /\ weather = DefaultWeather
    /\ aura_state = "Balanced"
    /\ cart = <<>>
    /\ calendar_events = DefaultCalendar
    /\ purchase_history = <<>>
    /\ health_goals = DefaultHealthGoals
    /\ fitness_data = DefaultFitness
    /\ hash_seed = 0
    /\ now = StartOfYear
    /\ request = NoRequest
    /\ wishlist = <<>>
    /\ users \in {FreshStore, DeactivatedStore}
    /\ last = NoCall

\* What a statement on the table users leaves alone.
UsersUnchanged ==
    UNCHANGED <<stress_level, energy_level, weather, aura_state, cart,
                calendar_events, purchase_history, health_goals,
                fitness_data, hash_seed, now, request, wishlist>>

\* A login (line 1142).
Authenticate ==
    \E username \in Usernames, password \in {"admin123", "secret1"} :
        LET done == authenticate_user(users, username, password, now)
        IN  /\ \A k \in 1..Len(done.rows) :
                   done.rows[k].failed_attempts <= MaxFailed
            /\ users' = done.rows
            /\ last' = [op |-> "authenticate_user",
                        arg |-> <<username, password>>, ret |-> done.ret]
            /\ UsersUnchanged

\* A registration (line 1206): create_user without a role, which is then
\* 'user' (line 286).
CreateUser ==
    \E username \in Usernames, password \in {"admin123", "secret1"},
       email \in {"bob@example.com"} :
        LET done == create_user(users, username, password, email, "user")
        IN  /\ Len(done.rows) <= MaxUsers
            /\ users' = done.rows
            /\ last' = [op |-> "create_user",
                        arg |-> <<username, password, email>>,
                        ret |-> done.ret]
            /\ UsersUnchanged

\* A run of the script (line 264).
InitDb ==
    /\ users' = init_comprehensive_db(users)
    /\ last' = [op |-> "init_comprehensive_db", arg |-> <<>>, ret |-> <<>>]
    /\ UsersUnchanged

NextUsers == Authenticate \/ CreateUser \/ InitDb

SpecUsers == InitUsers /\ [][NextUsers]_vars

\* C11: get_eco_alternatives returns a string: the substitute of the table
\* key equal to the lower-cased product name when there is one of the 10
\* ("plastic bottle" in any letter case gives "Reusable stainless steel
\* bottle"), else "Eco-friendly " followed by the name as given ("xyz" gives
\* "Eco-friendly xyz").
C11_EcoAlternatives ==
    (last.op = "get_eco_alternatives") =>
        LET name == last.arg
            keys == {k \in DOMAIN alternatives : k = Lower(name)}
        IN  /\ last.ret \in STRING
            /\ Cardinality(DOMAIN alternatives) = 10
            /\ \A k \in keys : last.ret = alternatives[k]
            /\ keys = {} => last.ret = "Eco-friendly " \o name
            /\ name \in {"plastic bottle", "Plastic Bottle", "PLASTIC BOTTLE"}
                   => last.ret = "Reusable stainless steel bottle"
            /\ name = "xyz" => last.ret = "Eco-friendly xyz"

\* get_eco_alternatives answered a table key written in capitals.
C11_Witness ==
    /\ last.op = "get_eco_alternatives"
    /\ last.arg = "PLASTIC BOTTLE"
    /\ last.ret = "Reusable stainless steel bottle"

\* The last call was process_voice_command.
VoiceCalled == last.op = "process_voice_command"

\* The command of the last call, lower-cased and trimmed.
LastCommand == Strip(Lower(last.arg))

\* The k-th predicate of the dispatcher, in the order add-to-cart, search,
\* trending, delivery, price, gift, weather, health, sustainability.
C12_Satisfies(cmd, k) ==
    LET has(word) == Contains(word, cmd)
    IN  CASE k = 1 -> has("add") /\ has("cart")
          [] k = 2 -> has("find") \/ has("search")
          [] k = 3 -> has("trending")
          [] k = 4 -> has("delivery") \/ has("schedule")
          [] k = 5 -> has("price") \/ has("under") \/ has("$")
          [] k = 6 -> has("gift") \/ has("friend")
          [] k = 7 -> has("weather")
          [] k = 8 -> has("health") \/ has("wellness")
          [] k = 9 -> has("carbon") \/ has("environment")

\* The responses of the k-th branch.
C12_Responses(k) ==
    CASE k = 1 -> {AddOrganicResponse, AddEcoResponse, AddResponse}
      [] k = 2 -> {SearchEcoResponse, SearchGiftResponse, SearchResponse}
      [] k = 3 -> {TrendingResponse(DefaultTrends)}
      [] k = 4 -> {DeliveryResponse}
      [] k = 5 -> {PriceResponse}
      [] k = 6 -> {GiftResponse}
      [] k = 7 -> {WeatherResponse(weather)}
      [] k = 8 -> {HealthResponse}
      [] k = 9 -> {CarbonResponse}

\* C12 (as claimed): process_voice_command answers a command with a response
\* of the earliest predicate it satisfies, in the order add-to-cart, search,
\* trending, delivery, price, gift, weather, health, sustainability; "find
\* eco gift" gets a search response, not the gift response.
C12_FirstMatchAsClaimed ==
    VoiceCalled =>
        /\ \A k \in 1..9 :
               (/\ C12_Satisfies(LastCommand, k)
                /\ \A j \in 1..(k - 1) : ~C12_Satisfies(LastCommand, j))
               => last.ret \in C12_Responses(k)
        /\ last.arg = "find eco gift" =>
               last.ret \in C12_Responses(2) /\ last.ret # GiftResponse

\* C13 (as claimed): a command containing "add", "cart" and "organic", such
\* as "add organic to cart", gets the organic add-to-cart response and not
\* the generic one.
C13_OrganicAddToCartAsClaimed ==
    (/\ VoiceCalled
     /\ Contains("add", LastCommand)
     /\ Contains("cart", LastCommand)
     /\ Contains("organic", LastCommand))
    => last.ret = "I've added organic products to your cart based on your preferences."

\* C14 (as claimed): every command gets one of the canned responses, and a
\* command that satisfies no predicate gets the catch-all response.
C14_TotalAsClaimed ==
    VoiceCalled =>
        /\ last.ret \in UNION {C12_Responses(k) : k \in 1..9} \cup {GeneralResponse}
        /\ (\A k \in 1..9 : ~C12_Satisfies(LastCommand, k))
               => last.ret = GeneralResponse

\* C15 (as claimed): a call of an operation with the input of the call
\* before it yields the output of the call before it, whatever the clock
\* did in between.
C15_SameInputSameOutputAsClaimed ==
    [][(/\ last.op # "none"
        /\ last'.op = last.op
        /\ last'.arg = last.arg) => last'.ret = last.ret]_vars

\* C16 (as claimed): the output of calculate_aura depends on its argument
\* only: whatever the state of the process outside the argument, the clock
\* included, the same argument gives the output of the last call.
C16_OnlyArgumentAsClaimed ==
    AuraCalled => \A hour \in Hours : calculate_aura(last.arg, hour) = last.ret

\* The defaults the claim names for calculate_aura.
C17_AuraDefaults == [stress_level |-> 5, energy_level |-> 7, weather |-> "Sunny"]

\* The defaults the claim names for generate_predictions.
C17_PredictDefaults ==
    [age |-> 30, weather |-> "Sunny", purchase_history |-> <<>>,
     calendar_events |-> <<>>, health_goals |-> <<>>, fitness_data |-> <<>>]

\* C17: calculate_aura and generate_predictions answer a context record that
\* lacks fields as they answer the record with the lacking fields set to
\* stress 5, energy 7, weather Sunny, age 30 and empty purchase history,
\* calendar, health goals and fitness data; so on the empty record.
C17_DefaultsSubstituted ==
    /\ AuraCalled =>
           /\ last.ret = calculate_aura(last.arg @@ C17_AuraDefaults, last.hour)
           /\ last.arg = <<>> =>
                  last.ret = calculate_aura(C17_AuraDefaults, last.hour)
    /\ PredictCalled =>
           /\ last.ret = generate_predictions(last.arg @@ C17_PredictDefaults,
                                              last.month, last.hour, hash_seed)
           /\ last.arg = <<>> =>
                  last.ret = generate_predictions(C17_PredictDefaults,
                                                  last.month, last.hour, hash_seed)

\* calculate_aura answered the empty record.
C17_Witness ==
    /\ AuraCalled
    /\ last.arg = <<>>
    /\ last.ret[1] = "Vibrant"

\* The strings the six sub-models give for the context of the last call.
C18_Union ==
    Range(seasonal_predictions(last.arg, last.month))
    \cup Range(behavioral_predictions(last.arg))
    \cup Range(social_predictions(last.arg))
    \cup Range(lifecycle_predictions(last.arg))
    \cup Range(contextual_predictions(last.arg, last.hour))
    \cup Range(health_predictions(last.arg))

\* C18: the strings generate_predictions returns are among the outputs of
\* the six sub-models for the context, and they are all of them when these
\* are at most 15 different strings.
C18_AllSixContribute ==
    PredictCalled =>
        /\ Range(last.ret) \subseteq C18_Union
        /\ Cardinality(C18_Union) <= 15 => Range(last.ret) = C18_Union

\* A call whose six outputs hold no more than 15 different strings, with
\* strings of the last model that has output there, the contextual one.
C18_Witness ==
    /\ PredictCalled
    /\ Cardinality(C18_Union) <= 15
    /\ health_predictions(last.arg) = <<>>
    /\ Range(contextual_predictions(last.arg, last.hour)) \subseteq Range(last.ret)

\* The purchase history of the last call of _behavioral_predictions.
C19_History == last.arg.purchase_history

\* The category of the i-th purchase; "General" when the record names none.
C19_Category(i) == Get(C19_History[i], "category", "General")

\* How many purchases have category c.
C19_Count(c) == Cardinality({i \in 1..Len(C19_History) : C19_Category(i) = c})

\* The place of the first purchase of category c.
C19_First(c) ==
    CHOOSE i \in 1..Len(C19_History) :
        C19_Category(i) = c /\ \A j \in 1..(i - 1) : C19_Category(j) # c

\* Category c comes before category e: more purchases, or as many and an
\* earlier first one.
C19_Precedes(c, e) ==
    \/ C19_Count(c) > C19_Count(e)
    \/ C19_Count(c) = C19_Count(e) /\ C19_First(c) < C19_First(e)

\* C19: _behavioral_predictions returns the three fallback strings for an
\* empty history; else "More {category} items" for at most 3 categories, the
\* ones with the highest counts, in descending count order, equal counts in
\* the order in which the categories first appear in the history.
C19_TopThreeCategories ==
    (last.op = "_behavioral_predictions") =>
        LET cats == {C19_Category(i) : i \in 1..Len(C19_History)}
            named(k) == {c \in cats : last.ret[k] = "More " \o c \o " items"}
            chosen == UNION {named(k) : k \in 1..Len(last.ret)}
        IN  IF C19_History = <<>>
            THEN last.ret = <<"Basic necessities", "Popular items", "Trending products">>
            ELSE /\ Len(last.ret) <= 3
                 /\ Len(last.ret) = (IF Cardinality(cats) < 3 THEN Cardinality(cats) ELSE 3)
                 /\ \A k \in 1..Len(last.ret) : Cardinality(named(k)) = 1
                 /\ \A j, k \in 1..Len(last.ret) :
                        j < k => \A c \in named(j), e \in named(k) : C19_Precedes(c, e)
                 /\ \A c \in chosen, e \in cats \ chosen : C19_Precedes(c, e)

\* A history of four categories, two of them with as many purchases as each
\* other: the later of the two is left out.
C19_Witness ==
    /\ last.op = "_behavioral_predictions"
    /\ C19_History = <<[category |-> "Toys"], [category |-> "Home"],
                       [category |-> "Tech"], [category |-> "Grocery"]>>
    /\ last.ret = <<"More Toys items", "More Home items", "More Tech items">>

\* The keywords of _social_predictions and their strings, in the order the
\* claim gives.
C20_Keywords ==
    << <<"birthday", "Gift ideas for birthday celebration">>,
       <<"party", "Party supplies and decorations">>,
       <<"meeting", "Professional attire and accessories">>,
       <<"bbq", "BBQ essentials and outdoor dining">>,
       <<"gym", "Fitness gear and protein supplements">> >>

\* The keywords that occur in the lower-cased event, by their places.
C20_Hits(event) ==
    {k \in 1..Len(C20_Keywords) : Contains(C20_Keywords[k][1], Lower(event))}

\* The event has a keyword.
C20_Matches(event) == C20_Hits(event) # {}

\* The string of the first keyword of the event.
C20_String(event) ==
    C20_Keywords[CHOOSE k \in C20_Hits(event) : \A m \in C20_Hits(event) : k <= m][2]

\* C20: _social_predictions gives, for the events that have a keyword and in
\* their order, one string each, that of the first of birthday, party,
\* meeting, bbq, gym in the lower-cased event; when no event has a keyword it
\* gives the one-element fallback.
C20_OneStringPerEvent ==
    (last.op = "_social_predictions") =>
        LET matched == SelectSeq(last.arg.calendar_events, C20_Matches)
        IN  /\ Len(last.ret) <= IF Len(last.arg.calendar_events) = 0 THEN 1
                                ELSE Len(last.arg.calendar_events)
            /\ IF matched = <<>>
               THEN last.ret = <<"Social gathering items">>
               ELSE last.ret = [k \in 1..Len(matched) |-> C20_String(matched[k])]

\* An event with both "birthday" and "party" between one with no keyword and
\* one in capitals.
C20_Witness ==
    /\ last.op = "_social_predictions"
    /\ last.arg.calendar_events = <<"Dentist", "Birthday Party", "TEAM MEETING">>
    /\ last.ret = <<"Gift ideas for birthday celebration",
                    "Professional attire and accessories">>

\* The four lists of _lifecycle_predictions, youngest bucket first.
C21_Lists ==
    << <<"Tech gadgets", "Fashion items", "Entertainment", "Education supplies", "Social activities">>,
       <<"Career items", "Home improvement", "Travel", "Investment tools", "Skill development">>,
       <<"Family items", "Health products", "Home essentials", "Children's needs", "Long-term planning">>,
       <<"Comfort items", "Health supplements", "Hobby supplies", "Relaxation tools", "Wellness products">> >>

\* C21: _lifecycle_predictions gives the list of the bucket of the age,
\* age < 25, 25 <= age < 35, 35 <= age < 50 or age >= 50, each a list of 5;
\* the ages 25, 35 and 50 are in the older bucket, and a missing age counts
\* as 30.
C21_AgeBuckets ==
    (last.op = "_lifecycle_predictions") =>
        LET age == IF "age" \in DOMAIN last.arg THEN last.arg.age ELSE 30
            bucket == IF age < 25 THEN 1
                      ELSE IF 25 <= age /\ age < 35 THEN 2
                      ELSE IF 35 <= age /\ age < 50 THEN 3
                      ELSE 4
        IN  /\ last.ret = C21_Lists[bucket]
            /\ Len(last.ret) = 5
            /\ Cardinality({k \in 1..4 : last.ret = C21_Lists[k]}) = 1

\* _lifecycle_predictions answered the age 35, an edge.
C21_Witness ==
    /\ last.op = "_lifecycle_predictions"
    /\ "age" \in DOMAIN last.arg
    /\ last.arg.age = 35
    /\ last.ret[1] = "Family items"

\* The weather-keyed list of a weather, empty for a weather without one.
C22_WeatherList(w) ==
    CASE w = "Rainy" -> <<"Umbrellas", "Raincoats", "Indoor activities", "Comfort food">>
      [] w = "Sunny" -> <<"Sunscreen", "Outdoor gear", "Cold beverages", "Summer clothing">>
      [] w = "Snowy" -> <<"Winter gear", "Heating supplies", "Hot beverages", "Snow activities">>
      [] OTHER -> <<>>

\* The time-of-day list of an hour.
C22_TimeList(h) ==
    CASE h \in 0..11 -> <<"Breakfast items", "Coffee", "Morning supplements">>
      [] h \in 12..16 -> <<"Lunch options", "Afternoon snacks", "Energy drinks">>
      [] h \in 17..23 -> <<"Dinner ingredients", "Evening relaxation", "Night-time products">>

\* C22: _contextual_predictions returns the weather-keyed list, 4 items for
\* Rainy, Sunny or Snowy and none for any other weather, followed by exactly
\* one time-of-day list of 3 items: morning for the hours 0..11, afternoon
\* for 12..16, evening for 17..23.  A record without weather counts as Sunny.
C22_WeatherThenTime ==
    (last.op = "_contextual_predictions") =>
        LET w == IF "weather" \in DOMAIN last.arg THEN last.arg.weather ELSE "Sunny"
            n == IF w \in {"Rainy", "Sunny", "Snowy"} THEN 4 ELSE 0
        IN  /\ Len(last.ret) = n + 3
            /\ SubSeq(last.ret, 1, n) = C22_WeatherList(w)
            /\ SubSeq(last.ret, n + 1, n + 3) = C22_TimeList(last.hour)

\* _contextual_predictions answered a Cloudy record at noon.
C22_Witness ==
    /\ last.op = "_contextual_predictions"
    /\ "weather" \in DOMAIN last.arg
    /\ last.arg.weather = "Cloudy"
    /\ last.hour = 12
    /\ last.ret = <<"Lunch options", "Afternoon snacks", "Energy drinks">>

\* The health goals and the fitness data of the last request, as given.
C23_Goals == IF "health_goals" \in DOMAIN last.arg THEN last.arg.health_goals ELSE <<>>
C23_Fitness == IF "fitness_data" \in DOMAIN last.arg THEN last.arg.fitness_data ELSE <<>>
C23_Steps == IF "steps" \in DOMAIN C23_Fitness THEN C23_Fitness.steps ELSE 0
C23_Water == IF "water" \in DOMAIN C23_Fitness THEN C23_Fitness.water ELSE 0

\* ret holds, from position at on, the strings of part when cond holds and
\* nothing of part otherwise; the value is the position after them.
C23_After(cond, part, at) == IF cond THEN at + Len(part) ELSE at

\* C23: _health_predictions evaluates four independent conditions and
\* appends in this order: 3 strings if "Weight Management" is a goal, 3
\* strings if "Heart Health" is a goal, the activity-tracker string if
\* steps < 5000, the hydration string if water < 8; 5000 steps and 8 glasses
\* add nothing, and no condition suppresses another.
C23_FourConditions ==
    (last.op = "_health_predictions") =>
        LET weight == \E i \in 1..Len(C23_Goals) : C23_Goals[i] = "Weight Management"
            heart == \E i \in 1..Len(C23_Goals) : C23_Goals[i] = "Heart Health"
            idle == C23_Steps < 5000
            dry == C23_Water < 8
            p1 == <<"Healthy snacks", "Portion control tools", "Fitness equipment">>
            p2 == <<"Heart-healthy foods", "Omega-3 supplements", "Exercise gear">>
            p3 == <<"Activity trackers and motivation tools">>
            p4 == <<"Water bottles and hydration reminders">>
            a1 == C23_After(weight, p1, 1)
            a2 == C23_After(heart, p2, a1)
            a3 == C23_After(idle, p3, a2)
            a4 == C23_After(dry, p4, a3)
        IN  /\ Len(last.ret) = a4 - 1
            /\ weight => SubSeq(last.ret, 1, a1 - 1) = p1
            /\ heart => SubSeq(last.ret, a1, a2 - 1) = p2
            /\ idle => SubSeq(last.ret, a2, a3 - 1) = p3
            /\ dry => SubSeq(last.ret, a3, a4 - 1) = p4
            /\ (C23_Steps = 5000 /\ C23_Water = 8) =>
                   \A i \in 1..Len(last.ret) : last.ret[i] \notin {p3[1], p4[1]}

\* _health_predictions answered both goals, heart first, with 5000 steps and
\* 7 glasses: six goal strings, weight first, then the hydration string.
C23_Witness ==
    /\ last.op = "_health_predictions"
    /\ C23_Goals = <<"Heart Health", "Weight Management">>
    /\ C23_Steps = 5000
    /\ C23_Water = 7
    /\ Len(last.ret) = 7
    /\ last.ret[1] = "Healthy snacks"
    /\ last.ret[7] = "Water bottles and hydration reminders"

\* C24: when the module has loaded, the name process_voice_command is bound
\* to its later definition: for every command the answer is "You said: "
\* followed by the command exactly as given, not trimmed and not lower-cased,
\* and it is never the answer of the keyword dispatcher defined earlier.
C24_BoundToEcho ==
    VoiceCalled =>
        /\ Len(last.ret) = 10 + Len(last.arg)
        /\ SubSeq(last.ret, 1, 10) = "You said: "
        /\ SubSeq(last.ret, 11, Len(last.ret)) = last.arg
        /\ last.ret # process_voice_command_1(last.arg, VoiceSession)

\* The function answered a command with capitals and blanks around it, which
\* the dispatcher would trim, lower-case and answer as a search.
C24_Witness ==
    /\ VoiceCalled
    /\ last.arg = "  FIND eco gift  "
    /\ last.ret = "You said:   FIND eco gift  "
    /\ process_voice_command_1(last.arg, VoiceSession) = SearchEcoResponse

\* The labels calculate_aura is said to return.
C25_Labels ==
    {"Stressed", "Calm", "Energetic", "Low Energy", "Cozy", "Vibrant",
     "Restful", "Productive", "Relaxed"}

\* C25: calculate_aura returns one of the nine labels Stressed, Calm,
\* Energetic, Low Energy, Cozy, Vibrant, Restful, Productive, Relaxed, never
\* Eco and never the session's initial "Balanced"; the label has a bundle of
\* its own in get_aura_recommendations, and the colour returned is the first
\* accent colour of that bundle, hence a function of the label alone.
C25_NineLabelsWithTheirColour ==
    AuraCalled =>
        /\ Len(last.ret) = 2
        /\ last.ret[1] \in C25_Labels
        /\ last.ret[1] \notin {"Eco", "Balanced"}
        /\ aura_state = last.ret[1]
        /\ last.ret[1] \in DOMAIN recommendations
        /\ last.ret[2] = get_aura_recommendations(last.ret[1]).colors[1]

\* calculate_aura fell through to the time branch at night and returned
\* Restful with the first colour of Restful's bundle.
C25_Witness ==
    /\ AuraCalled
    /\ last.ret = <<"Restful", "#6366f1">>
    /\ last.hour = 23
    /\ get_aura_recommendations("Restful").colors = <<"#6366f1", "#4f46e5">>

\* items with the items at the positions i and j exchanged.
C26_Swap(items, i, j) ==
    [k \in 1..Len(items) |->
        IF k = i THEN items[j] ELSE IF k = j THEN items[i] ELSE items[k]]

\* The place of a grade, best first.
C26_Rank(grade) ==
    CASE grade = "A+" -> 1 [] grade = "A" -> 2 [] grade = "B+" -> 3
      [] grade = "B" -> 4 [] grade = "C" -> 5

\* C26: the footprint is additive and monotone: the empty cart has footprint
\* 0, appending an item raises the footprint by that item's cost, which is at
\* least 0.3 and at most 4.0, reordering the cart does not change the
\* footprint, and appending an item never raises the eco_score and never
\* moves the grade to a better band.
C26_AdditiveAndOrderFreeAsClaimed ==
    (last.op = "calculate_carbon_footprint") =>
        /\ last.arg = <<>> => last.ret = FromInt(0)
        /\ \A item \in CartItems :
               LET more == calculate_carbon_footprint(Append(last.arg, item))
               IN  /\ more = FAdd(last.ret, ItemCost(item))
                   /\ C9_Leq(Cost_0_3, ItemCost(item))
                   /\ C9_Leq(ItemCost(item), Cost_4_0)
                   /\ FxLess(last.ret, more)
                   /\ C9_Leq(EcoScore(more), EcoScore(last.ret))
                   /\ C26_Rank(EcoGrade(more)) >= C26_Rank(EcoGrade(last.ret))
        /\ \A i, j \in 1..Len(last.arg) :
               calculate_carbon_footprint(C26_Swap(last.arg, i, j)) = last.ret

\* C27: in every report the grade and the eco_score agree: A+ exactly when
\* eco_score > 90, A exactly when 80 < eco_score <= 90, B+ exactly when
\* 60 < eco_score <= 80, B exactly when 40 < eco_score <= 60, C exactly when
\* eco_score <= 40; and a record without a cart is reported as the empty
\* cart: footprint 0, grade A+, eco_score 100.
C27_GradeAgreesWithScoreAsClaimed ==
    (last.op = "generate_sustainability_report") =>
        LET score == last.ret.eco_score
            grade == last.ret.eco_grade
        IN  /\ grade = "A+" <=> FxLess(FromInt(90), score)
            /\ grade = "A"  <=> (FxLess(FromInt(80), score) /\ C9_Leq(score, FromInt(90)))
            /\ grade = "B+" <=> (FxLess(FromInt(60), score) /\ C9_Leq(score, FromInt(80)))
            /\ grade = "B"  <=> (FxLess(FromInt(40), score) /\ C9_Leq(score, FromInt(60)))
            /\ grade = "C"  <=> C9_Leq(score, FromInt(40))
            /\ "cart" \notin DOMAIN last.arg =>
                   /\ last.ret.carbon_footprint = FromInt(0)
                   /\ grade = "A+"
                   /\ score = FromInt(100)

\* How many times the item occurs in the list.
C28_Count(list, item) == Cardinality({i \in 1..Len(list) : list[i] = item})

\* The step leaves, for every item, the number of its occurrences in cart
\* and wishlist together as it was.
C28_Conserved ==
    \A item \in ShopItems :
        C28_Count(cart' \o wishlist', item) = C28_Count(cart \o wishlist, item)

\* C28: "Save for Later" appends the whole cart, in order, to the wishlist
\* and leaves the cart empty; moving a wishlist item to the cart happens only
\* while the cart is empty, takes one occurrence of the item out of the
\* wishlist and appends it to the cart; both leave the multiset of the items
\* of cart and wishlist together unchanged.  "Checkout" empties the cart and
\* leaves the wishlist unchanged.
C28_CartAndWishlistConserveItems ==
    [][/\ (last'.op = "save_for_later") =>
              /\ wishlist' = wishlist \o cart
              /\ cart' = <<>>
              /\ C28_Conserved
       /\ (last'.op = "wishlist_to_cart") =>
              /\ cart = <<>>
              /\ cart' = <<last'.arg>>
              /\ Len(wishlist') = Len(wishlist) - 1
              /\ C28_Count(wishlist', last'.arg) = C28_Count(wishlist, last'.arg) - 1
              /\ C28_Conserved
       /\ (last'.op = "checkout") =>
              /\ cart' = <<>>
              /\ wishlist' = wishlist]_vars

\* An item was moved to the cart out of a wishlist that held it twice, after
\* carts were saved.
C28_Witness ==
    /\ last.op = "wishlist_to_cart"
    /\ last.arg = "Yoga Mat"
    /\ cart = <<"Yoga Mat">>
    /\ wishlist = <<"Energy Bars", "Yoga Mat">>

\* The places of the rows of the username that are active.
C29_Active(username) ==
    {k \in 1..Len(users) : users[k].username = username /\ users[k].is_active = 1}

\* The step changes no row but the k-th.
C29_OthersKept(k) ==
    /\ Len(users') = Len(users)
    /\ \A j \in 1..Len(users) : j # k => users'[j] = users[j]

\* C29: authenticate_user returns a user record only when a user of that
\* username exists, is active and the password matches, and then that user's
\* failed_attempts is 0; a wrong password for an existing active user returns
\* None and raises failed_attempts by exactly one; an unknown or inactive
\* username returns None and changes no row.  The record is returned whatever
\* failed_attempts was: no value of it prevents a login with the correct
\* password.
C29_AuthenticateUser ==
    [][(last'.op = "authenticate_user") =>
          LET username == last'.arg[1]
              password == last'.arg[2]
              active == C29_Active(username)
              matches == {k \in active : users[k].password = hash_password(password)}
          IN  /\ (last'.ret # <<>>) <=> (matches # {})
              /\ \A k \in matches :
                     /\ last'.ret = <<users[k]>>
                     /\ users'[k].failed_attempts = 0
                     /\ users'[k].username = username
                     /\ users'[k].is_active = 1
                     /\ C29_OthersKept(k)
              /\ \A k \in active \ matches :
                     /\ last'.ret = <<>>
                     /\ users'[k] = [users[k] EXCEPT !.failed_attempts = @ + 1]
                     /\ C29_OthersKept(k)
              /\ (active = {}) => (last'.ret = <<>> /\ users' = users)]_vars

\* A login with the correct password succeeded after two failed attempts: the
\* row returned is the one fetched before the counter was reset.
C29_Witness ==
    /\ last.op = "authenticate_user"
    /\ last.arg = <<"admin", "admin123">>
    /\ last.ret # <<>>
    /\ last.ret[1].failed_attempts = 2
    /\ users[1].failed_attempts = 0

\* The usernames of the table are unique and one row has the username admin.
C30_UniqueWithOneAdmin(rows) ==
    /\ \A i, j \in 1..Len(rows) : rows[i].username = rows[j].username => i = j
    /\ Cardinality({i \in 1..Len(rows) : rows[i].username = "admin"}) = 1

\* C30: create_user with a username that exists returns False and leaves the
\* table unchanged; with a new username it returns True and adds exactly one
\* row, active, with that username; a repeated run of init_comprehensive_db
\* adds no row; and before and after every step the usernames are unique and
\* exactly one row is the admin's.
C30_CreateUser ==
    [][/\ (last'.op = "create_user") =>
              LET username == last'.arg[1]
                  exists == \E k \in 1..Len(users) : users[k].username = username
              IN  /\ exists => (last'.ret = FALSE /\ users' = users)
                  /\ ~exists =>
                         /\ last'.ret = TRUE
                         /\ Len(users') = Len(users) + 1
                         /\ SubSeq(users', 1, Len(users)) = users
                         /\ users'[Len(users')].username = username
                         /\ users'[Len(users')].is_active = 1
                         /\ users'[Len(users')].failed_attempts = 0
                         /\ users'[Len(users')].role = "user"
       /\ (last'.op = "init_comprehensive_db") => users' = users
       /\ C30_UniqueWithOneAdmin(users)
       /\ C30_UniqueWithOneAdmin(users')]_vars

\* create_user was refused for the username of a row whose counters had
\* changed, and the row is as it was.
C30_Witness ==
    /\ last.op = "create_user"
    /\ last.arg[1] = "bob"
    /\ last.ret = FALSE
    /\ Len(users) = 2
    /\ users[2].username = "bob"
    /\ users[2].failed_attempts = 1
    /\ users[2].password = hash_password("secret1")
    /\ last.arg[2] = "admin123"

====
